---- MODULE Spec2Model ----
(***************************************************************************)
(* Carrier integration service: the UPS OAuth token cache                  *)
(* (UpsAuthService), the error classifier (ErrorMapper) and the retry      *)
(* engine (withRetry).                                                     *)
(*                                                                         *)
(* Control is modelled at the granularity of the JavaScript event loop:    *)
(* one action per synchronous stretch of code between two awaits.          *)
(***************************************************************************)
EXTENDS Integers, Sequences, FiniteSets

\* ------------------------------------------------------------------ bounds
MaxCalls       == 3   \* getToken() calls made in one behaviour
MaxExchanges   == 2   \* httpService.post calls to the OAuth endpoint
MaxTicks       == 1   \* clock advances
MaxRetriesArg  == 2   \* largest maxRetries a caller passes to withRetry
RandDen        == 4   \* Math.random() is drawn from {0, 1/RandDen, ...}
MaxShipments   == 3   \* rated shipments in one response
MaxClients     == 2   \* concurrent getRates() calls

\* --------------------------------------------------------- JavaScript values
\* A JS number is either NaN or a (small) integer.
Num(n) == [nan |-> FALSE, v |-> n]
NaN    == [nan |-> TRUE,  v |-> 0]

NumAdd(a, b) == IF a.nan \/ b.nan THEN NaN ELSE Num(a.v + b.v)
NumSub(a, b) == IF a.nan \/ b.nan THEN NaN ELSE Num(a.v - b.v)
NumMul(a, b) == IF a.nan \/ b.nan THEN NaN ELSE Num(a.v * b.v)
\* a < b in JS: false as soon as one side is NaN
NumLt(a, b)  == ~a.nan /\ ~b.nan /\ a.v < b.v

\* null for the string-or-null fields; the empty string is a separate value
NULL == "<null>"
\* a string is truthy unless it is null or empty
Truthy(s) == s # NULL /\ s # ""

\* A string that the code parses is a sequence of one-character strings.
DigitChars == <<"0", "1", "2", "3", "4", "5", "6", "7", "8", "9">>
IsDigit(ch) == \E i \in 1..10 : DigitChars[i] = ch
DigitVal(ch) == (CHOOSE i \in 1..10 : DigitChars[i] = ch) - 1
IsSpace(ch) == ch = " "

RECURSIVE SkipSpaces(_)
SkipSpaces(s) ==
    IF s # <<>> /\ IsSpace(Head(s)) THEN SkipSpaces(Tail(s)) ELSE s

\* value of the longest prefix of digits of s, continuing from acc
RECURSIVE DigitsValue(_, _)
DigitsValue(s, acc) ==
    IF s # <<>> /\ IsDigit(Head(s))
    THEN DigitsValue(Tail(s), acc * 10 + DigitVal(Head(s)))
    ELSE acc

\* parseInt(s, 10): leading blanks, an optional sign, then the longest run of
\* digits; NaN when there is no digit at that place
ParseInt(s) ==
    LET t    == SkipSpaces(s)
        neg  == t # <<>> /\ Head(t) = "-"
        sgn  == t # <<>> /\ Head(t) \in {"-", "+"}
        body == IF sgn THEN Tail(t) ELSE t
    IN  IF body = <<>> \/ ~IsDigit(Head(body)) THEN NaN
        ELSE IF neg THEN Num(0 - DigitsValue(body, 0))
        ELSE Num(DigitsValue(body, 0))

\* the longest prefix of digits of s
RECURSIVE DigitsPrefix(_)
DigitsPrefix(s) ==
    IF s # <<>> /\ IsDigit(Head(s))
    THEN <<Head(s)>> \o DigitsPrefix(Tail(s))
    ELSE <<>>

ParseFloatWhole(s) ==
    LET whole == DigitsPrefix(SkipSpaces(s))
    IN  IF whole = <<>> THEN NaN ELSE Num(100 * DigitsValue(whole, 0))

\* parseFloat(s) of an amount of money: leading blanks, digits, then
\* optionally a point and digits; NaN when there is no digit.  The number is
\* kept as its count of hundredths (12.35 is 1235, 28.10 and 28.1 are 2810);
\* the amounts have at most two decimals.
ParseFloat(s) ==
    LET t     == SkipSpaces(s)
        whole == DigitsPrefix(t)
        rest  == SubSeq(t, Len(whole) + 1, Len(t))
        frac  == IF rest # <<>> /\ Head(rest) = "."
                 THEN DigitsPrefix(Tail(rest)) ELSE <<>>
        cents == IF frac = <<>> THEN 0
                 ELSE IF Len(frac) = 1 THEN 10 * DigitVal(frac[1])
                 ELSE 10 * DigitVal(frac[1]) + DigitVal(frac[2])
    IN  IF whole = <<>> /\ frac = <<>> THEN NaN
        ELSE Num(100 * DigitsValue(whole, 0) + cents)

\* String(n) for a non-negative integer
RECURSIVE NumberToString(_)
NumberToString(n) ==
    IF n < 10 THEN <<DigitChars[n + 1]>>
    ELSE NumberToString(n \div 10) \o <<DigitChars[(n % 10) + 1]>>

\* ---------------------------------------------------- the other components
\* ErrorMapper, CarrierRegistryService, RatingService and UpsMapper, each
\* exercised by a specification of its own
VARIABLES
    cFirst,    \* ErrorMapper: the first mapAxiosError() call, its argument
               \* and its result
    cSecond,   \* ErrorMapper: a later call with the same argument
    adapters,  \* CarrierRegistryService.adapters, a Map: its entries in
               \* insertion order
    lookup,    \* history: the last resolve() or has() call and its result
    shop,      \* RatingService: the shopAllCarriers() call
    mapped,    \* UpsMapper: the last fromUpsRateResponse() call, its
               \* argument and its result
    clients    \* UpsService: the getRates() calls of concurrent callers

otherVars == <<cFirst, cSecond, adapters, lookup, shop, mapped, clients>>

\* ------------------------------------------------------------------ errors
\* Everything that can be thrown is one record shape.  httpStatus 0 and
\* status 0 stand for undefined.
CarrierErrorClasses ==
    {"CarrierAuthError", "CarrierValidationError", "CarrierRateLimitError",
     "CarrierNetworkError", "CarrierServiceError",
     "CarrierResponseParseError", "CarrierUnknownError"}

\* response.data of a failed request, as far as the code fields go: present
\* is FALSE for a missing (falsy) body, a field that is absent is "".
NoData ==
    [present |-> FALSE, code |-> "", errorCode |-> "", error_code |-> "",
     responseErrorsCode |-> "", errorsCode |-> ""]

\* { response: { errors: [{ code }] } }, the carrier's error body
CarrierErrorBody(code) ==
    [NoData EXCEPT !.present = TRUE, !.responseErrorsCode = code]

\* response.headers, as far as extractRetryAfter looks at them: the values
\* of 'retry-after' and 'Retry-After', strings of one-character strings,
\* <<>> for a header that is not there
NoHeaders == [lower |-> <<>>, upper |-> <<>>]

\* a number that may be undefined
Undefined == [defined |-> FALSE, v |-> 0]
Defined(n) == [defined |-> TRUE, v |-> n]

NoError ==
    [class |-> "none", isAxiosError |-> FALSE, hasResponse |-> FALSE,
     status |-> 0, code |-> "", data |-> NoData, headers |-> NoHeaders,
     carrierCode |-> "", errorCode |-> "", httpStatus |-> 0,
     isRetryable |-> FALSE, retryAfterSeconds |-> Undefined]

\* new CarrierXxxError(..., carrierCode, errorCode, httpStatus, ...): the
\* retryable flag is fixed by the class
CarrierError(class, carrierCode, errorCode, httpStatus) ==
    [NoError EXCEPT !.class = class, !.carrierCode = carrierCode,
        !.errorCode = errorCode,
        !.httpStatus = IF class = "CarrierRateLimitError" THEN 429
                       ELSE IF class = "CarrierNetworkError" THEN 0
                       ELSE httpStatus,
        !.isRetryable = class \in {"CarrierRateLimitError",
                                   "CarrierNetworkError",
                                   "CarrierServiceError"}]

\* an axios failure: with a response (status, data) or without (code)
AxiosError(hasResponse, status, code, data) ==
    [NoError EXCEPT !.class = "AxiosError", !.isAxiosError = TRUE,
        !.hasResponse = hasResponse, !.status = status, !.code = code,
        !.data = data]

\* any other thrown Error object
PlainError(class) == [NoError EXCEPT !.class = class]

IsAxiosErrorFirstCallOnly(error) ==
    error.isAxiosError = TRUE /\ cFirst.carrierCode = ""

\* isAxiosError(error): lines 105-112
IsAxiosError(error) == error.isAxiosError = TRUE

ExtractRetryAfterNone(headers) == Undefined

\* extractRetryAfter(headers): lines 148-156
ExtractRetryAfter(headers) ==
    LET retryAfter == IF headers.lower # <<>> THEN headers.lower
                      ELSE headers.upper
        seconds == ParseInt(retryAfter)
    IN  IF retryAfter = <<>> THEN Undefined
        ELSE IF seconds.nan THEN Undefined
        ELSE Defined(seconds.v)

\* extractErrorCode(data): the first code field of the payload that is set
ExtractErrorCode(data) ==
    IF ~data.present THEN "UNKNOWN"
    ELSE IF data.code # "" THEN data.code
    ELSE IF data.errorCode # "" THEN data.errorCode
    ELSE IF data.error_code # "" THEN data.error_code
    ELSE IF data.responseErrorsCode # "" THEN data.responseErrorsCode
    ELSE IF data.errorsCode # "" THEN data.errorsCode
    ELSE "UNKNOWN"

MapAxiosError(error, carrierCode) ==
    IF IsAxiosError(error) THEN
        IF ~error.hasResponse THEN
            IF error.code = "ECONNABORTED" \/ error.code = "ETIMEDOUT"
            THEN CarrierError("CarrierNetworkError", carrierCode, "TIMEOUT", 0)
            ELSE CarrierError("CarrierNetworkError", carrierCode,
                              "NETWORK_ERROR", 0)
        ELSE LET status == error.status
                 errorCode == ExtractErrorCode(error.data)
                 class ==
                    CASE status \in {401, 403} -> "CarrierAuthError"
                      [] status \in {400, 422} -> "CarrierValidationError"
                      [] status = 429 -> "CarrierRateLimitError"
                      [] status \in {500, 502, 503, 504} ->
                            "CarrierServiceError"
                      [] OTHER ->
                            IF status >= 400 /\ status < 500
                            THEN "CarrierValidationError"
                            ELSE IF status >= 500 THEN "CarrierServiceError"
                            ELSE "CarrierUnknownError"
             IN  [CarrierError(class, carrierCode, errorCode, status)
                    EXCEPT !.retryAfterSeconds =
                       IF status = 429 THEN ExtractRetryAfter(error.headers)
                       ELSE Undefined]
    ELSE IF error.class = "SyntaxError"
    THEN CarrierError("CarrierResponseParseError", carrierCode,
                      "PARSE_ERROR", 0)
    ELSE CarrierError("CarrierUnknownError", carrierCode, "UNKNOWN_ERROR", 0)

\* ------------------------------------------------------------- token cache
VARIABLES
    mockMode,        \* config.mockMode
    cachedToken,     \* UpsAuthService.cachedToken: a string or NULL
    expiresAt,       \* UpsAuthService.expiresAt: a JS number
    refreshPromise,  \* UpsAuthService.refreshPromise: 0 (null) or the
                     \* number of the acquireToken() call whose promise it is
    exch,            \* the acquireToken() calls made so far, with the state
                     \* of the promise each returned
    calls,           \* the getToken() calls made so far
    now,             \* Date.now()
    cachedFrom,      \* history: the exchange that produced cachedToken
    invalidated,     \* history: exchanges whose credential was in the cache
                     \* when invalidate() ran
    justInvalidated  \* history: the last step was an external invalidate()

\* withRetry: one run of the retry engine
VARIABLES
    rOptions,      \* the options argument (absent fields take the default)
    rPc,           \* where the run is: "idle", "awaitFn", "sleep",
                   \* "returned", "thrown"
    rAttempt,      \* the local attempt
    rLastError,    \* the local lastError
    rOutcome,      \* what the run returned or threw
    rInvocations,  \* history: what each invocation of fn did
    rDelays        \* history: the delays slept, in order

retryVars == <<rOptions, rPc, rAttempt, rLastError, rOutcome, rInvocations,
               rDelays>>

tokenVars == <<mockMode, cachedToken, expiresAt, refreshPromise, exch, calls,
               now, cachedFrom, invalidated, justInvalidated>>

\* UpsService: one getRates() call
VARIABLES
    gPc,            \* where the call is: "idle", "retrying", "resolved",
                    \* "rejected"
    gRequest,       \* its argument
    gResult,        \* what it resolved to or rejected with
    xPc,            \* where the current executeRateRequest() is: "none",
                    \* "awaitToken", "awaitPost", "settled"
    xCall,          \* the getToken() call it awaits (an index of calls)
    xResult,        \* what it returned or threw
    posts,          \* history: the httpService.post() calls of this
                    \* getRates() call, with the answer each got
    gInvalidations  \* history: the invalidate() calls of this getRates()

rateVars == <<gPc, gRequest, gResult, xPc, xCall, xResult, posts,
              gInvalidations>>

TOKEN_BUFFER_MS == 60 * 1000
MOCK_TOKEN == "mock_token_12345"
\* the clock moves in steps of half the buffer
TickMs == TOKEN_BUFFER_MS \div 2

TokenFields ==
    {"token_type", "issued_at", "client_id", "access_token", "expires_in",
     "status"}

\* UpsTokenSchema.safeParse(response.data).success: the six fields are
\* strings.  data.strings is the set of fields of the body that are strings.
UpsTokenSchemaOk(data) == TokenFields \subseteq data.strings

\* What the OAuth endpoint can answer.  A 2xx answer the server rendered
\* from numbers keeps them in issuedAtMs / expiresInSec (numeric = TRUE).
SuccessReply(tok, issuedAtMs, expiresInSec) ==
    [thrown |-> FALSE, error |-> NoError, status |-> 200,
     strings |-> TokenFields, access_token |-> tok,
     expires_in |-> NumberToString(expiresInSec),
     issued_at |-> NumberToString(issuedAtMs),
     numeric |-> TRUE, issuedAtMs |-> issuedAtMs,
     expiresInSec |-> expiresInSec]

FailureReply(error) ==
    [thrown |-> TRUE, error |-> error, status |-> error.status,
     strings |-> {}, access_token |-> "", expires_in |-> <<>>,
     issued_at |-> <<>>, numeric |-> FALSE, issuedAtMs |-> 0,
     expiresInSec |-> 0]

TokenReplies(t) ==
    {SuccessReply("tokA", t, 90),
     SuccessReply("tokB", t, 60),                \* inside the buffer at once
     [SuccessReply("tokA", t, 90) EXCEPT         \* expires_in missing
         !.strings = TokenFields \ {"expires_in"}, !.numeric = FALSE],
     FailureReply(AxiosError(TRUE, 401, "ERR_BAD_REQUEST",
                               CarrierErrorBody("10002"))),
     FailureReply(AxiosError(FALSE, 0, "ECONNABORTED", NoData))}

\* the promise of an acquireToken() call
PendingExchange ==
    [state |-> "pending", token |-> NULL, err |-> NoError,
     exp |-> Num(0), reply |-> FailureReply(NoError)]

NoCall ==
    [pc |-> "done", p |-> 0, outcome |-> "none", value |-> NULL,
     err |-> NoError, how |-> "none", src |-> 0, unexpired |-> FALSE,
     invAtStart |-> {}, early |-> FALSE]

InFlight == {e \in DOMAIN exch : exch[e].state = "pending"}
Settled(e) == exch[e].state # "pending"

IsTokenValidNoBuffer == NumLt(Num(now), expiresAt)

IsTokenValid == NumLt(Num(now), NumSub(expiresAt, Num(TOKEN_BUFFER_MS)))

GetTokenPathNoMutex ==
    IF mockMode THEN "mock"
    ELSE IF Truthy(cachedToken) /\ IsTokenValid THEN "cached"
    ELSE "start"

\* the branch getToken() takes in the current state
GetTokenPath ==
    IF mockMode THEN "mock"
    ELSE IF Truthy(cachedToken) /\ IsTokenValid THEN "cached"
    ELSE IF refreshPromise # 0 THEN "join"
    ELSE "start"

\* history fields every new call records
NewCall ==
    [NoCall EXCEPT !.invAtStart = invalidated,
                   !.early = \A e \in DOMAIN exch : exch[e].state = "pending"]

\* the fields of a call that has returned or thrown; unexpired records
\* whether the credential's expiry exp is more than the buffer away
Finished(c, outcome, value, err, src, exp) ==
    [c EXCEPT !.pc = "done", !.outcome = outcome, !.value = value,
              !.err = err, !.src = src,
              !.unexpired = ~exp.nan /\ now < exp.v - 60000]

\* getToken() in mock mode: lines 132-134
GetTokenMockCall ==
    /\ Len(calls) < MaxCalls
    /\ GetTokenPath = "mock"
    /\ calls' = Append(calls,
          Finished([NewCall EXCEPT !.how = "mock"], "fulfilled", MOCK_TOKEN,
                   NoError, 0, Num(0)))
    /\ justInvalidated' = FALSE
    /\ UNCHANGED <<mockMode, cachedToken, expiresAt, refreshPromise, exch,
                   now, cachedFrom, invalidated>>

\* getToken() with a valid cached token: lines 137-139
GetTokenCachedCall ==
    /\ Len(calls) < MaxCalls
    /\ GetTokenPath = "cached"
    /\ calls' = Append(calls,
          Finished([NewCall EXCEPT !.how = "cached"], "fulfilled",
                   cachedToken, NoError, cachedFrom, expiresAt))
    /\ justInvalidated' = FALSE
    /\ UNCHANGED <<mockMode, cachedToken, expiresAt, refreshPromise, exch,
                   now, cachedFrom, invalidated>>

\* getToken() while refreshPromise is set: lines 142-144.  The call's own
\* promise is resolved with refreshPromise and settles later (JoinerSettle).
GetTokenJoinCall ==
    /\ Len(calls) < MaxCalls
    /\ GetTokenPath = "join"
    /\ calls' = Append(calls,
          [NewCall EXCEPT !.how = "join", !.pc = "joined",
                          !.p = refreshPromise])
    /\ justInvalidated' = FALSE
    /\ UNCHANGED <<mockMode, cachedToken, expiresAt, refreshPromise, exch,
                   now, cachedFrom, invalidated>>

\* getToken() starting a refresh: line 147 and acquireToken() up to its
\* await of the POST (lines 176-194); the call then suspends at line 150
GetTokenStartCallNoGuard ==
    /\ Len(calls) < MaxCalls
    /\ Len(exch) < MaxExchanges
    /\ GetTokenPath = "start"
    /\ exch' = Append(exch, PendingExchange)
    /\ refreshPromise' = refreshPromise
    /\ calls' = Append(calls,
          [NewCall EXCEPT !.how = "start", !.pc = "awaitRefresh",
                          !.p = Len(exch) + 1])
    /\ justInvalidated' = FALSE
    /\ UNCHANGED <<mockMode, cachedToken, expiresAt, now, cachedFrom,
                   invalidated>>

GetTokenStartCall ==
    /\ Len(calls) < MaxCalls
    /\ Len(exch) < MaxExchanges
    /\ GetTokenPath = "start"
    /\ exch' = Append(exch, PendingExchange)
    /\ refreshPromise' = Len(exch) + 1
    /\ calls' = Append(calls,
          [NewCall EXCEPT !.how = "start", !.pc = "awaitRefresh",
                          !.p = Len(exch) + 1])
    /\ justInvalidated' = FALSE
    /\ UNCHANGED <<mockMode, cachedToken, expiresAt, now, cachedFrom,
                   invalidated>>

\* getToken() called by another client than the getRates() call of the model
GetTokenMock == GetTokenMockCall /\ UNCHANGED retryVars /\ UNCHANGED rateVars /\ UNCHANGED otherVars
GetTokenCached ==
    GetTokenCachedCall /\ UNCHANGED retryVars /\ UNCHANGED rateVars /\ UNCHANGED otherVars
GetTokenJoin == GetTokenJoinCall /\ UNCHANGED retryVars /\ UNCHANGED rateVars /\ UNCHANGED otherVars
GetTokenStart ==
    GetTokenStartCall /\ UNCHANGED retryVars /\ UNCHANGED rateVars /\ UNCHANGED otherVars

InvalidateTokenOnly ==
    /\ cachedToken' = NULL
    /\ expiresAt' = expiresAt
    /\ cachedFrom' = 0
    /\ invalidated' = invalidated \cup ({cachedFrom} \ {0})

InvalidateExpiryOnly ==
    /\ cachedToken' = cachedToken
    /\ expiresAt' = Num(0)
    /\ cachedFrom' = cachedFrom
    /\ invalidated' = invalidated \cup ({cachedFrom} \ {0})

InvalidateNothing ==
    UNCHANGED <<cachedToken, expiresAt, cachedFrom, invalidated>>

\* invalidate(): lines 160-163, with the history of what it removed
InvalidateCache ==
    /\ cachedToken' = NULL
    /\ expiresAt' = Num(0)
    /\ cachedFrom' = 0
    /\ invalidated' = invalidated \cup ({cachedFrom} \ {0})

InvalidateRestarts ==
    /\ InvalidateCache
    /\ justInvalidated' = TRUE
    /\ IF InFlight # {} /\ Len(exch) < MaxExchanges
       THEN /\ exch' = Append(exch, PendingExchange)
            /\ refreshPromise' = Len(exch) + 1
       ELSE UNCHANGED <<exch, refreshPromise>>
    /\ UNCHANGED retryVars
    /\ UNCHANGED rateVars /\ UNCHANGED otherVars
    /\ UNCHANGED <<mockMode, calls, now>>

InvalidateDropsGuard ==
    /\ InvalidateCache
    /\ refreshPromise' = 0
    /\ justInvalidated' = TRUE
    /\ UNCHANGED retryVars
    /\ UNCHANGED rateVars /\ UNCHANGED otherVars
    /\ UNCHANGED <<mockMode, exch, calls, now>>

\* invalidate() called from outside the service
Invalidate ==
    /\ InvalidateCache
    /\ justInvalidated' = TRUE
    /\ UNCHANGED retryVars
    /\ UNCHANGED rateVars /\ UNCHANGED otherVars
    /\ UNCHANGED <<mockMode, refreshPromise, exch, calls, now>>

\* the catch block of acquireToken(): lines 221-231, after this.invalidate()
AcquireTokenCatch(error) ==
    IF error.class = "CarrierAuthError" THEN error
    ELSE MapAxiosError(error, "ups")

ComputeExpiresAtNoScale(data) ==
    NumAdd(ParseInt(data.issued_at), ParseInt(data.expires_in))

\* the expiry acquireToken() computes: lines 214-218
ComputeExpiresAt(data) ==
    LET expiresInMs == NumMul(ParseInt(data.expires_in), Num(1000))
        issuedAt    == ParseInt(data.issued_at)
    IN  NumAdd(issuedAt, expiresInMs)

\* acquireToken() resumes with the answer to its POST: lines 196-231.
\* Caching the token or clearing the cache and settling the promise are one
\* synchronous stretch.
AcquireTokenResume(e, reply) ==
    /\ e \in InFlight
    /\ IF ~reply.thrown /\ UpsTokenSchemaOk(reply)
       THEN /\ cachedToken' = reply.access_token
            /\ expiresAt' = ComputeExpiresAt(reply)
            /\ cachedFrom' = e
            /\ invalidated' = invalidated
            /\ exch' = [exch EXCEPT ![e] =
                  [state |-> "fulfilled", token |-> reply.access_token,
                   err |-> NoError, exp |-> ComputeExpiresAt(reply),
                   reply |-> reply]]
       ELSE /\ InvalidateCache
            /\ exch' = [exch EXCEPT ![e] =
                  [state |-> "rejected", token |-> NULL,
                   err |-> AcquireTokenCatch(
                      IF reply.thrown THEN reply.error
                      ELSE CarrierError("CarrierAuthError", "ups",
                               "INVALID_TOKEN_RESPONSE", reply.status)),
                   exp |-> Num(0), reply |-> reply]]
    /\ justInvalidated' = FALSE
    /\ UNCHANGED retryVars
    /\ UNCHANGED rateVars /\ UNCHANGED otherVars
    /\ UNCHANGED <<mockMode, refreshPromise, calls, now>>

ExchangeCompletes ==
    \E e \in DOMAIN exch : \E reply \in TokenReplies(now) :
        AcquireTokenResume(e, reply)

\* the result a call takes from the settled promise p
FromPromise(c, p) ==
    IF exch[p].state = "fulfilled"
    THEN Finished(c, "fulfilled", exch[p].token, NoError, p, exch[p].exp)
    ELSE Finished(c, "rejected", NULL, exch[p].err, p, Num(0))

\* the call that started the refresh resumes from its await, one microtask
\* after the promise settled: lines 150-154
RefresherResume(i) ==
    /\ i \in DOMAIN calls
    /\ calls[i].pc = "awaitRefresh"
    /\ Settled(calls[i].p)
    /\ refreshPromise' = 0
    /\ calls' = [calls EXCEPT ![i] = FromPromise(calls[i], calls[i].p)]
    /\ justInvalidated' = FALSE
    /\ UNCHANGED retryVars
    /\ UNCHANGED rateVars /\ UNCHANGED otherVars
    /\ UNCHANGED <<mockMode, cachedToken, expiresAt, exch, now, cachedFrom,
                   invalidated>>

JoinerTakesCache(i) ==
    /\ i \in DOMAIN calls
    /\ calls[i].pc = "joined"
    /\ Settled(calls[i].p)
    /\ \A j \in DOMAIN calls :
          ~(calls[j].pc = "awaitRefresh" /\ calls[j].p = calls[i].p)
    /\ calls' = [calls EXCEPT ![i] =
          Finished(calls[i], "fulfilled", cachedToken, NoError, cachedFrom,
                   expiresAt)]
    /\ justInvalidated' = FALSE
    /\ UNCHANGED retryVars
    /\ UNCHANGED rateVars /\ UNCHANGED otherVars
    /\ UNCHANGED <<mockMode, cachedToken, expiresAt, refreshPromise, exch,
                   now, cachedFrom, invalidated>>

\* a call that returned refreshPromise (line 143) settles as that promise
\* did.  Adopting the promise takes more microtasks than the single one of
\* the await at line 150, so the starter's finally block has run by then.
JoinerSettle(i) ==
    /\ i \in DOMAIN calls
    /\ calls[i].pc = "joined"
    /\ Settled(calls[i].p)
    /\ \A j \in DOMAIN calls :
          ~(calls[j].pc = "awaitRefresh" /\ calls[j].p = calls[i].p)
    /\ calls' = [calls EXCEPT ![i] = FromPromise(calls[i], calls[i].p)]
    /\ justInvalidated' = FALSE
    /\ UNCHANGED retryVars
    /\ UNCHANGED rateVars /\ UNCHANGED otherVars
    /\ UNCHANGED <<mockMode, cachedToken, expiresAt, refreshPromise, exch,
                   now, cachedFrom, invalidated>>

RefresherResumes == \E i \in DOMAIN calls : RefresherResume(i)
JoinerSettles == \E i \in DOMAIN calls : JoinerSettle(i)

\* Date.now() moves on
Tick ==
    /\ now < MaxTicks * TickMs
    /\ now' = now + TickMs
    /\ justInvalidated' = FALSE
    /\ UNCHANGED retryVars
    /\ UNCHANGED rateVars /\ UNCHANGED otherVars
    /\ UNCHANGED <<mockMode, cachedToken, expiresAt, refreshPromise, exch,
                   calls, cachedFrom, invalidated>>

\* --------------------------------------------------------------- withRetry
\* DEFAULT_RETRY_OPTIONS; isRetryable has no default
DEFAULT_MAX_RETRIES == 3
DEFAULT_INITIAL_DELAY_MS == 1000
DEFAULT_MAX_DELAY_MS == 10000
DEFAULT_BACKOFF_MULTIPLIER == 2

DEFAULT_RETRY_OPTIONS ==
    [maxRetries |-> DEFAULT_MAX_RETRIES,
     initialDelayMs |-> DEFAULT_INITIAL_DELAY_MS,
     maxDelayMs |-> DEFAULT_MAX_DELAY_MS,
     backoffMultiplier |-> DEFAULT_BACKOFF_MULTIPLIER,
     useJitter |-> "true", isRetryable |-> "absent"]

\* an options argument: a numeric field that is absent is -1, another one
\* "absent"
NoOptions ==
    [maxRetries |-> -1, initialDelayMs |-> -1, maxDelayMs |-> -1,
     backoffMultiplier |-> -1, useJitter |-> "absent",
     isRetryable |-> "absent"]

\* { ...DEFAULT_RETRY_OPTIONS, ...options }: line 103
MergeOptions(options) ==
    [f \in DOMAIN DEFAULT_RETRY_OPTIONS |->
        IF options[f] = NoOptions[f] THEN DEFAULT_RETRY_OPTIONS[f]
        ELSE options[f]]

\* the options the callers of the model pass
OptionSets ==
    [maxRetries : {-1} \cup 0..MaxRetriesArg,
     initialDelayMs : {-1, 1000},
     maxDelayMs : {-1, 5000},
     backoffMultiplier : {-1, 3},
     useJitter : {"absent", "false"},
     isRetryable : {"absent", "always", "never"}]

\* what one invocation of fn can throw
FnErrors ==
    {CarrierError("CarrierServiceError", "ups", "UNKNOWN", 503),
     CarrierError("CarrierAuthError", "ups", "UNKNOWN", 401),
     PlainError("Error")}

IsDefaultRetryableClassified(error) == error.class \in CarrierErrorClasses

\* isDefaultRetryable(error): lines 138-144
IsDefaultRetryable(error) ==
    IF error.class \in CarrierErrorClasses THEN error.isRetryable ELSE FALSE

IsRetryableFlagOnly(opts, error) == IsDefaultRetryable(error)

\* line 114: the override predicate when there is one
IsRetryable(opts, error) ==
    IF opts.isRetryable # "absent" THEN opts.isRetryable = "always"
    ELSE IsDefaultRetryable(error)

RECURSIVE Pow(_, _)
Pow(b, e) == IF e = 0 THEN 1 ELSE b * Pow(b, e - 1)

Min(a, b) == IF a < b THEN a ELSE b

CalculateDelayWideJitter(attempt, opts, rnd) ==
    LET delay == Min(opts.initialDelayMs * Pow(opts.backoffMultiplier, attempt),
                     opts.maxDelayMs)
    IN  IF opts.useJitter = "true"
        THEN (delay * (2 * RandDen + 4 * rnd)) \div (4 * RandDen)
        ELSE delay

CalculateDelayNoCap(attempt, opts, rnd) ==
    LET delay == opts.initialDelayMs * Pow(opts.backoffMultiplier, attempt)
    IN  IF opts.useJitter = "true"
        THEN (delay * (3 * RandDen + 2 * rnd)) \div (4 * RandDen)
        ELSE delay

\* calculateDelay(attempt, options), with Math.random() = rnd / RandDen:
\* floor(d + (rnd/RandDen) * (d/4) * 2 - d/4) = floor(d*(3*RandDen+2*rnd)
\* / (4*RandDen))
CalculateDelay(attempt, opts, rnd) ==
    LET delay == Min(opts.initialDelayMs * Pow(opts.backoffMultiplier, attempt),
                     opts.maxDelayMs)
    IN  IF opts.useJitter = "true"
        THEN (delay * (3 * RandDen + 2 * rnd)) \div (4 * RandDen)
        ELSE delay

LoopContinuesStrict(attempt, opts) == attempt < opts.maxRetries

\* the loop condition, line 107
LoopContinues(attempt, opts) == attempt <= opts.maxRetries

\* lines 107-109 (an invocation of fn) or, when the loop is left, line 132
InvokeOrGiveUp(attempt) ==
    IF LoopContinues(attempt, MergeOptions(rOptions'))
    THEN /\ rPc' = "awaitFn"
         /\ rInvocations' = Append(rInvocations,
                [outcome |-> "pending", err |-> NoError, value |-> 0])
         /\ rOutcome' = rOutcome
    ELSE /\ rPc' = "thrown"
         /\ rInvocations' = rInvocations
         /\ rOutcome' = [kind |-> "thrown", value |-> 0, err |-> rLastError]

\* withRetry(fn, options) is called: lines 103-109
RetryEnter(options) ==
    /\ rPc = "idle"
    /\ rOptions' = options
    /\ rAttempt' = 0
    /\ InvokeOrGiveUp(0)
    /\ UNCHANGED <<rLastError, rDelays>>

RetryStart(options) == RetryEnter(options) /\ UNCHANGED tokenVars

\* fn() resolves to value: line 109
FnReturns(value) ==
    /\ rPc = "awaitFn"
    /\ LET n == Len(rInvocations)
       IN  /\ rInvocations' = [rInvocations EXCEPT ![n] =
                 [outcome |-> "ok", err |-> NoError, value |-> value]]
           /\ rOutcome' = [kind |-> "returned", value |-> value,
                           err |-> NoError]
    /\ rPc' = "returned"
    /\ UNCHANGED <<rOptions, rAttempt, rLastError, rDelays>>
    /\ UNCHANGED tokenVars

\* an fn that resolves to the number of its invocation
FnResolves == FnReturns(Len(rInvocations)) /\ UNCHANGED rateVars /\ UNCHANGED otherVars

RethrownFirst(error) == rInvocations[1].err

\* what the catch block throws, line 118: the error it caught
Rethrown(error) == error

FnRejectsSleepsFirst(error, rnd) ==
    /\ rPc = "awaitFn"
    /\ rInvocations' = [rInvocations EXCEPT ![Len(rInvocations)] =
          [outcome |-> "err", err |-> error, value |-> 0]]
    /\ rLastError' = error
    /\ LET opts == MergeOptions(rOptions)
       IN  IF ~IsRetryable(opts, error)
           THEN /\ rPc' = "thrown"
                /\ rOutcome' = [kind |-> "thrown", value |-> 0,
                                err |-> Rethrown(error)]
                /\ rDelays' = rDelays
           ELSE /\ rPc' = "sleep"
                /\ rOutcome' = rOutcome
                /\ rDelays' = Append(rDelays,
                                     CalculateDelay(rAttempt, opts, rnd))
    /\ UNCHANGED <<rOptions, rAttempt>>
    /\ UNCHANGED tokenVars

\* fn() rejects with error: lines 110-125
FnRejects(error, rnd) ==
    /\ rPc = "awaitFn"
    /\ rInvocations' = [rInvocations EXCEPT ![Len(rInvocations)] =
          [outcome |-> "err", err |-> error, value |-> 0]]
    /\ rLastError' = error
    /\ LET opts == MergeOptions(rOptions)
       IN  IF ~IsRetryable(opts, error) \/ rAttempt = opts.maxRetries
           THEN /\ rPc' = "thrown"
                /\ rOutcome' = [kind |-> "thrown", value |-> 0,
                                err |-> Rethrown(error)]
                /\ rDelays' = rDelays
           ELSE /\ rPc' = "sleep"
                /\ rOutcome' = rOutcome
                /\ rDelays' = Append(rDelays,
                                     CalculateDelay(rAttempt, opts, rnd))
    /\ UNCHANGED <<rOptions, rAttempt>>
    /\ UNCHANGED tokenVars

\* the timer of sleep(delay) fires: lines 125-127 and the next loop test
SleepResume ==
    /\ rPc = "sleep"
    /\ rAttempt' = rAttempt + 1
    /\ rOptions' = rOptions
    /\ InvokeOrGiveUp(rAttempt + 1)
    /\ UNCHANGED <<rLastError, rDelays>>

SleepEnds == SleepResume /\ UNCHANGED tokenVars /\ UNCHANGED rateVars /\ UNCHANGED otherVars

RetryStarts ==
    \E options \in OptionSets : RetryStart(options) /\ UNCHANGED rateVars /\ UNCHANGED otherVars
FnFails == \E error \in FnErrors : \E rnd \in 0..(RandDen - 1) :
              FnRejects(error, rnd) /\ UNCHANGED rateVars /\ UNCHANGED otherVars

\* ---------------------------------------------------------------- getRates
\* a rate request, as far as RateRequestSchema looks at it: whether the two
\* addresses are there and well-formed, and the number of packages
RateRequests ==
    {[addresses |-> TRUE, packages |-> 1],
     [addresses |-> TRUE, packages |-> 0],
     [addresses |-> FALSE, packages |-> 1]}

NoRequest == [addresses |-> FALSE, packages |-> 0]

RateRequestSchemaOkLax(request) == TRUE

\* RateRequestSchema.safeParse(request).success
RateRequestSchemaOk(request) == request.addresses /\ request.packages >= 1

\* the body of a rate response: whether it has the RateResponse structure
\* of UpsRateResponseSchema, and the service codes of its rated shipments
NoRateData == [hasRateResponse |-> FALSE, RatedShipment |-> <<>>]

\* a rated shipment: Service.Code and TotalCharges.MonetaryValue, a string
RatedShipment(code, monetaryValue) ==
    [Code |-> code, MonetaryValue |-> monetaryValue]

\* test/fixtures/ups/rate-shop-response.json: Ground 12.35, 2nd Day Air
\* 19.45, Next Day Air 28.10
RateShopFixture ==
    [hasRateResponse |-> TRUE,
     RatedShipment |->
        <<RatedShipment("03", <<"1", "2", ".", "3", "5">>),
          RatedShipment("02", <<"1", "9", ".", "4", "5">>),
          RatedShipment("01", <<"2", "8", ".", "1", "0">>)>>]

UpsRateResponseSchemaOkLax(data) == TRUE

\* UpsRateResponseSchema.safeParse(response.data).success
UpsRateResponseSchemaOk(data) == data.hasRateResponse

\* UpsMapper.toRateQuote
ToRateQuote(ratedShipment) ==
    [carrier |-> "ups",
     serviceCode |-> ratedShipment.Code,
     totalCharges |-> ParseFloat(ratedShipment.MonetaryValue)]

\* UpsMapper.fromUpsRateResponse: one quote per rated shipment, in order
FromUpsRateResponse(data) ==
    [quotes |-> [i \in DOMAIN data.RatedShipment |->
                    ToRateQuote(data.RatedShipment[i])]]

NoResponse == [quotes |-> <<>>]
NoResult == [kind |-> "none", value |-> NoResponse, err |-> NoError]

\* what the rating endpoint can answer to one POST
RateSuccess(data) ==
    [thrown |-> FALSE, status |-> 200, data |-> data, error |-> NoError]

RateFailure(error) ==
    [thrown |-> TRUE, status |-> error.status, data |-> NoRateData,
     error |-> error]

PostReplies ==
    {RateSuccess(RateShopFixture),
     RateSuccess(NoRateData),                      \* { invalid: 'structure' }
     RateFailure(AxiosError(TRUE, 400, "ERR_BAD_REQUEST",
                            CarrierErrorBody("111285"))),
     RateFailure(AxiosError(TRUE, 401, "ERR_BAD_REQUEST",
                            CarrierErrorBody("10001"))),
     RateFailure(AxiosError(TRUE, 403, "ERR_BAD_REQUEST",
                            CarrierErrorBody("250002"))),
     RateFailure(AxiosError(TRUE, 429, "ERR_BAD_REQUEST",
                            CarrierErrorBody("250001"))),
     RateFailure(AxiosError(TRUE, 503, "ERR_BAD_RESPONSE", NoData)),
     RateFailure(AxiosError(FALSE, 0, "ETIMEDOUT", NoData))}

NoPost == [token |-> NULL, call |-> 0, state |-> "pending",
           reply |-> RateFailure(NoError)]

RatesRetryOptionsOneExtra ==
    [NoOptions EXCEPT !.maxRetries = 1, !.initialDelayMs = 1000,
                      !.maxDelayMs = 5000]

\* the options getRates() passes to withRetry: lines 142-146
RatesRetryOptions ==
    [NoOptions EXCEPT !.maxRetries = 2, !.initialDelayMs = 1000,
                      !.maxDelayMs = 5000]

UseMockNever == FALSE

\* the test of line 133
UseMock == mockMode

IsAuthErrorAnyResponse(error) == error.hasResponse

IsAuthErrorNever(error) == FALSE

\* isAuthError(error): the error has a response whose status is 401
IsAuthError(error) == error.hasResponse /\ error.status = 401

ExecuteCatchRaw(error) ==
    /\ IF IsAuthError(error)
       THEN /\ InvalidateCache
            /\ gInvalidations' = gInvalidations + 1
            /\ justInvalidated' = TRUE
       ELSE /\ UNCHANGED <<cachedToken, expiresAt, cachedFrom, invalidated>>
            /\ gInvalidations' = gInvalidations
            /\ justInvalidated' = FALSE
    /\ xResult' = [kind |-> "thrown", value |-> NoResponse, err |-> error]

\* the catch block of executeRateRequest(): lines 198-206
ExecuteCatch(error) ==
    /\ IF IsAuthError(error)
       THEN /\ InvalidateCache
            /\ gInvalidations' = gInvalidations + 1
            /\ justInvalidated' = TRUE
       ELSE /\ UNCHANGED <<cachedToken, expiresAt, cachedFrom, invalidated>>
            /\ gInvalidations' = gInvalidations
            /\ justInvalidated' = FALSE
    /\ xResult' = [kind |-> "thrown", value |-> NoResponse,
                   err |-> MapAxiosError(error, "ups")]

\* getToken() as executeRateRequest() calls it, up to its first await
GetTokenCall ==
    \/ GetTokenMockCall
    \/ GetTokenCachedCall
    \/ GetTokenJoinCall
    \/ GetTokenStartCall

ExecuteRateRequestStartReuse ==
    /\ IF xCall = 0 THEN GetTokenCall
       ELSE /\ UNCHANGED tokenVars
            /\ calls[xCall].pc = "done"
    /\ xPc' = "awaitToken"
    /\ xCall' = IF xCall = 0 THEN Len(calls) + 1 ELSE xCall
    /\ xResult' = NoResult

\* executeRateRequest() up to its await of getToken(): lines 153-156
ExecuteRateRequestStart ==
    /\ GetTokenCall
    /\ xPc' = "awaitToken"
    /\ xCall' = Len(calls) + 1
    /\ xResult' = NoResult

\* getRates(request) is called: lines 119-147, up to the first await
GetRates(request) ==
    /\ UNCHANGED otherVars
    /\ gPc = "idle"
    /\ gRequest' = request
    /\ IF ~RateRequestSchemaOk(request)
       THEN /\ gPc' = "rejected"
            /\ gResult' = [kind |-> "thrown", value |-> NoResponse,
                  err |-> CarrierError("CarrierValidationError", "ups",
                                       "VALIDATION_ERROR", 400)]
            /\ UNCHANGED <<xPc, xCall, xResult, posts, gInvalidations>>
            /\ UNCHANGED retryVars
            /\ UNCHANGED tokenVars
       ELSE IF UseMock
       THEN /\ gPc' = "resolved"
            /\ gResult' = [kind |-> "returned",
                           value |-> FromUpsRateResponse(RateShopFixture),
                           err |-> NoError]
            /\ UNCHANGED <<xPc, xCall, xResult, posts, gInvalidations>>
            /\ UNCHANGED retryVars
            /\ UNCHANGED tokenVars
       ELSE /\ gPc' = "retrying"
            /\ gResult' = gResult
            /\ RetryEnter(RatesRetryOptions)
            /\ rPc' = "awaitFn"
            /\ ExecuteRateRequestStart
            /\ UNCHANGED <<posts, gInvalidations>>

\* executeRateRequest() resumes from its await of getToken(): with the
\* token it builds the request and posts it (lines 159-182), with the error
\* of getToken() it enters the catch block
ExecuteTokenArrives ==
    /\ UNCHANGED otherVars
    /\ xPc = "awaitToken"
    /\ calls[xCall].pc = "done"
    /\ IF calls[xCall].outcome = "fulfilled"
       THEN /\ posts' = Append(posts,
                  [NoPost EXCEPT !.token = calls[xCall].value,
                                 !.call = xCall])
            /\ xPc' = "awaitPost"
            /\ justInvalidated' = FALSE
            /\ UNCHANGED <<cachedToken, expiresAt, cachedFrom, invalidated,
                           xResult, gInvalidations>>
       ELSE /\ ExecuteCatch(calls[xCall].err)
            /\ xPc' = "settled"
            /\ posts' = posts
    /\ UNCHANGED <<mockMode, refreshPromise, exch, calls, now>>
    /\ UNCHANGED <<gPc, gRequest, gResult, xCall>>
    /\ UNCHANGED retryVars

\* the POST is answered and executeRateRequest() runs to its end: lines
\* 184-206
PostCompletes(reply) ==
    /\ UNCHANGED otherVars
    /\ xPc = "awaitPost"
    /\ posts' = [posts EXCEPT ![Len(posts)] =
                    [@ EXCEPT !.state = "done", !.reply = reply]]
    /\ IF ~reply.thrown /\ UpsRateResponseSchemaOk(reply.data)
       THEN /\ xResult' = [kind |-> "returned",
                           value |-> FromUpsRateResponse(reply.data),
                           err |-> NoError]
            /\ justInvalidated' = FALSE
            /\ UNCHANGED <<cachedToken, expiresAt, cachedFrom, invalidated,
                           gInvalidations>>
       ELSE ExecuteCatch(
               IF reply.thrown THEN reply.error
               ELSE CarrierError("CarrierResponseParseError", "ups",
                                 "PARSE_ERROR", reply.status))
    /\ xPc' = "settled"
    /\ UNCHANGED <<mockMode, refreshPromise, exch, calls, now>>
    /\ UNCHANGED <<gPc, gRequest, gResult, xCall>>
    /\ UNCHANGED retryVars

\* withRetry() resumes from its await of fn() (lines 109-125); when it
\* returns or throws, getRates() settles the same way (line 138)
WithRetryResume(rnd) ==
    /\ UNCHANGED otherVars
    /\ xPc = "settled"
    /\ IF xResult.kind = "returned" THEN FnReturns(xResult.value)
       ELSE FnRejects(xResult.err, rnd)
    /\ xPc' = "none"
    /\ gPc' = IF rPc' = "returned" THEN "resolved"
              ELSE IF rPc' = "thrown" THEN "rejected" ELSE gPc
    /\ gResult' = IF rPc' \in {"returned", "thrown"} THEN rOutcome'
                  ELSE gResult
    /\ UNCHANGED <<gRequest, xCall, xResult, posts, gInvalidations>>

\* the retry delay of getRates() is over: the next attempt starts
RatesSleepEnds ==
    /\ UNCHANGED otherVars
    /\ gPc = "retrying"
    /\ SleepResume
    /\ rPc' = "awaitFn"
    /\ ExecuteRateRequestStart
    /\ UNCHANGED <<gPc, gRequest, gResult, posts, gInvalidations>>

RatesIdle ==
    /\ gPc = "idle"
    /\ gRequest = NoRequest
    /\ gResult = NoResult
    /\ xPc = "none"
    /\ xCall = 0
    /\ xResult = NoResult
    /\ posts = <<>>
    /\ gInvalidations = 0

GetRatesCalled == \E request \in RateRequests : GetRates(request)
PostAnswered == \E reply \in PostReplies : PostCompletes(reply)
\* Math.random() at the two ends of its range
WithRetryResumes == \E rnd \in {0, RandDen - 1} : WithRetryResume(rnd)

\* --------------------------------------------------------- mapAxiosError
\* the response headers of a failure
WithHeaders(error, headers) == [error EXCEPT !.headers = headers]

\* what the transport, the parser and the callers can hand to
\* mapAxiosError: axios failures without a response, with a response of
\* each status the switch names and of some it does not, with and without a
\* retry-after header, and errors that are not axios failures
RawFailures ==
    {AxiosError(FALSE, 0, "ECONNABORTED", NoData),
     AxiosError(FALSE, 0, "ETIMEDOUT", NoData),
     AxiosError(FALSE, 0, "ECONNREFUSED", NoData),
     AxiosError(TRUE, 302, "ERR_BAD_RESPONSE", NoData),
     AxiosError(TRUE, 400, "ERR_BAD_REQUEST", CarrierErrorBody("111100")),
     AxiosError(TRUE, 401, "ERR_BAD_REQUEST", CarrierErrorBody("250002")),
     AxiosError(TRUE, 403, "ERR_BAD_REQUEST", NoData),
     AxiosError(TRUE, 404, "ERR_BAD_REQUEST", NoData),
     AxiosError(TRUE, 422, "ERR_BAD_REQUEST", NoData),
     AxiosError(TRUE, 429, "ERR_BAD_REQUEST", NoData),
     WithHeaders(AxiosError(TRUE, 429, "ERR_BAD_REQUEST", NoData),
                 [lower |-> <<"6", "0">>, upper |-> <<>>]),
     WithHeaders(AxiosError(TRUE, 429, "ERR_BAD_REQUEST", NoData),
                 [lower |-> <<>>, upper |-> <<"1", "2", "0">>]),
     WithHeaders(AxiosError(TRUE, 429, "ERR_BAD_REQUEST", NoData),
                 [lower |-> <<"s", "o", "o", "n">>, upper |-> <<>>]),
     WithHeaders(AxiosError(TRUE, 503, "ERR_BAD_RESPONSE", NoData),
                 [lower |-> <<"6", "0">>, upper |-> <<>>]),
     AxiosError(TRUE, 500, "ERR_BAD_RESPONSE", NoData),
     AxiosError(TRUE, 502, "ERR_BAD_RESPONSE", NoData),
     AxiosError(TRUE, 504, "ERR_BAD_RESPONSE", NoData),
     AxiosError(TRUE, 507, "ERR_BAD_RESPONSE", NoData),
     PlainError("SyntaxError"),
     PlainError("Error"),
     CarrierError("CarrierResponseParseError", "ups",
                  "INVALID_RESPONSE_STRUCTURE", 0)}

CarrierCodes == {"ups", "fedex"}

NoClassification ==
    [called |-> FALSE, in |-> NoError, carrierCode |-> "", out |-> NoError]

\* ErrorMapper.mapAxiosError(error, carrierCode), the first call
Classify(error, carrierCode) ==
    /\ ~cFirst.called
    /\ cFirst' = [called |-> TRUE, in |-> error, carrierCode |-> carrierCode,
                  out |-> MapAxiosError(error, carrierCode)]
    /\ UNCHANGED <<cSecond, adapters, lookup, shop, mapped, clients>>
    /\ UNCHANGED tokenVars /\ UNCHANGED retryVars /\ UNCHANGED rateVars

\* a later call with the same arguments
ClassifyAgain ==
    /\ cFirst.called
    /\ ~cSecond.called
    /\ cSecond' = [called |-> TRUE, in |-> cFirst.in,
                   carrierCode |-> cFirst.carrierCode,
                   out |-> MapAxiosError(cFirst.in, cFirst.carrierCode)]
    /\ UNCHANGED <<cFirst, adapters, lookup, shop, mapped, clients>>
    /\ UNCHANGED tokenVars /\ UNCHANGED retryVars /\ UNCHANGED rateVars

\* the token cache and the retry engine at work while the mapper is called:
\* one getToken() and its exchange, and one withRetry() run whose function
\* fails with a 503 every time
FirstGetToken == calls = <<>> /\ GetTokenStart
RatesRetryStarts ==
    RetryStart(RatesRetryOptions) /\ UNCHANGED rateVars /\ UNCHANGED otherVars
ServiceFails ==
    /\ FnRejects(CarrierError("CarrierServiceError", "ups", "UNKNOWN", 503), 0)
    /\ UNCHANGED rateVars /\ UNCHANGED otherVars

\* ------------------------------------------------- CarrierRegistryService
\* Carrier codes are strings of one-character strings.
LowerChar(c) ==
    CASE c = "U" -> "u" [] c = "P" -> "p" [] c = "S" -> "s"
      [] c = "F" -> "f" [] c = "E" -> "e" [] c = "D" -> "d"
      [] c = "X" -> "x" [] c = "H" -> "h" [] c = "L" -> "l"
      [] OTHER -> c

\* String.prototype.toLowerCase()
ToLowerCase(str) == [i \in DOMAIN str |-> LowerChar(str[i])]

\* the adapter objects there are: two whose carrierCode is 'ups' and two
\* whose carrierCode is 'FedEx'
Adapters ==
    {[id |-> 1, carrierCode |-> <<"u", "p", "s">>],
     [id |-> 2, carrierCode |-> <<"u", "p", "s">>],
     [id |-> 3, carrierCode |-> <<"F", "e", "d", "E", "x">>],
     [id |-> 4, carrierCode |-> <<"F", "e", "d", "E", "x">>]}

NoAdapter == [id |-> 0, carrierCode |-> <<>>]

\* the codes callers look up
LookupCodes ==
    {<<"u", "p", "s">>, <<"U", "P", "S">>, <<"f", "e", "d", "e", "x">>,
     <<"F", "e", "d", "E", "x">>, <<"d", "h", "l">>}

\* Map.prototype.has, get and set on a list of entries in insertion order;
\* set on a key that is there replaces the value and keeps the position.
\* replaced is history: the entry once held another value.
MapHas(map, key) == \E i \in DOMAIN map : map[i].key = key
MapGet(map, key) ==
    IF MapHas(map, key)
    THEN map[CHOOSE i \in DOMAIN map : map[i].key = key].value
    ELSE NoAdapter
MapSet(map, key, value) ==
    IF MapHas(map, key)
    THEN [i \in DOMAIN map |->
            IF map[i].key = key
            THEN [key |-> key, value |-> value,
                  replaced |-> map[i].replaced \/ map[i].value # value]
            ELSE map[i]]
    ELSE Append(map, [key |-> key, value |-> value, replaced |-> FALSE])

\* listCarriers() and getAllAdapters()
ListCarriers == [i \in DOMAIN adapters |-> adapters[i].key]
GetAllAdapters == [i \in DOMAIN adapters |-> adapters[i].value]

NoLookup ==
    [op |-> "none", code |-> <<>>, found |-> FALSE, adapter |-> NoAdapter,
     named |-> <<>>, available |-> <<>>]

\* register(adapter); the history of lookups starts again
Register(adapter) ==
    /\ adapters' = MapSet(adapters, adapter.carrierCode, adapter)
    /\ lookup' = NoLookup
    /\ UNCHANGED <<cFirst, cSecond, shop, mapped, clients>>
    /\ UNCHANGED tokenVars /\ UNCHANGED retryVars /\ UNCHANGED rateVars

\* resolve(carrierCode): returns the adapter, or throws the Error whose
\* message names the code and the available carriers
Resolve(carrierCode) ==
    /\ LET adapter == MapGet(adapters, ToLowerCase(carrierCode))
       IN  lookup' =
               IF adapter = NoAdapter
               THEN [NoLookup EXCEPT !.op = "resolve", !.code = carrierCode,
                        !.named = carrierCode, !.available = ListCarriers]
               ELSE [NoLookup EXCEPT !.op = "resolve", !.code = carrierCode,
                        !.found = TRUE, !.adapter = adapter]
    /\ UNCHANGED <<cFirst, cSecond, adapters, shop, mapped, clients>>
    /\ UNCHANGED tokenVars /\ UNCHANGED retryVars /\ UNCHANGED rateVars

\* has(carrierCode)
Has(carrierCode) ==
    /\ lookup' = [NoLookup EXCEPT !.op = "has", !.code = carrierCode,
                     !.found = MapHas(adapters, ToLowerCase(carrierCode))]
    /\ UNCHANGED <<cFirst, cSecond, adapters, shop, mapped, clients>>
    /\ UNCHANGED tokenVars /\ UNCHANGED retryVars /\ UNCHANGED rateVars

\* ---------------------------------------------------------- RatingService
\* the RateResponse an adapter's getRates() resolves with
ResponseOf(adapter) == [quotes |-> <<>>, by |-> adapter.id]

NoShop ==
    [pc |-> "idle", list |-> <<>>, settled |-> <<>>, results |-> <<>>]

\* shopAllCarriers(request) up to await Promise.all: getRates() is called
\* on every adapter of getAllAdapters()
ShopAllCarriers ==
    /\ shop.pc = "idle"
    /\ shop' = [pc |-> "awaiting", list |-> GetAllAdapters,
                settled |-> [i \in DOMAIN adapters |-> "pending"],
                results |-> <<>>]
    /\ UNCHANGED <<cFirst, cSecond, adapters, lookup, mapped, clients>>
    /\ UNCHANGED tokenVars /\ UNCHANGED retryVars /\ UNCHANGED rateVars

\* the i-th adapter's getRates() resolves: results[carrierCode] = response
AdapterResolves(i) ==
    /\ shop.pc = "awaiting"
    /\ shop.settled[i] = "pending"
    /\ shop' = [shop EXCEPT !.settled[i] = "fulfilled",
                   !.results = MapSet(shop.results, shop.list[i].carrierCode,
                                      ResponseOf(shop.list[i]))]
    /\ UNCHANGED <<cFirst, cSecond, adapters, lookup, mapped, clients>>
    /\ UNCHANGED tokenVars /\ UNCHANGED retryVars /\ UNCHANGED rateVars

ShopCatchRethrows(i) == [shop EXCEPT !.settled[i] = "rejected",
                                     !.pc = "rejected"]

\* the catch block around one adapter's getRates(): the error is logged
ShopCatch(i) == [shop EXCEPT !.settled[i] = "rejected"]

\* the i-th adapter's getRates() rejects
AdapterRejects(i) ==
    /\ shop.pc = "awaiting"
    /\ shop.settled[i] = "pending"
    /\ shop' = ShopCatch(i)
    /\ UNCHANGED <<cFirst, cSecond, adapters, lookup, mapped, clients>>
    /\ UNCHANGED tokenVars /\ UNCHANGED retryVars /\ UNCHANGED rateVars

\* Promise.all resolves once every adapter's promise has; return results
ShopReturns ==
    /\ shop.pc = "awaiting"
    /\ \A i \in DOMAIN shop.settled : shop.settled[i] # "pending"
    /\ shop' = [shop EXCEPT !.pc = "returned"]
    /\ UNCHANGED <<cFirst, cSecond, adapters, lookup, mapped, clients>>
    /\ UNCHANGED tokenVars /\ UNCHANGED retryVars /\ UNCHANGED rateVars

\* -------------------------------------------------------------- UpsMapper
\* the rated shipments a response is made of
Shipments ==
    {RatedShipment("03", <<"1", "2", ".", "3", "5">>),
     RatedShipment("02", <<"1", "9", ".", "4", "5">>),
     RatedShipment("01", <<"2", "8", ".", "1", "0">>),
     RatedShipment("12", <<"7">>),
     RatedShipment("65", <<"1", "0", "4", ".", "5">>)}

RECURSIVE SeqsUpTo(_, _)
SeqsUpTo(set, n) ==
    IF n = 0 THEN {<<>>}
    ELSE LET shorter == SeqsUpTo(set, n - 1)
         IN  shorter \cup {Append(q, x) : q \in shorter, x \in set}

\* the responses with up to MaxShipments rated shipments
RateResponses ==
    {[hasRateResponse |-> TRUE, RatedShipment |-> q] :
        q \in SeqsUpTo(Shipments, MaxShipments)}

NoMapped == [called |-> FALSE, in |-> NoRateData, out |-> NoResponse]

\* UpsMapper.fromUpsRateResponse(upsResponse), called once
MapResponse(data) ==
    /\ ~mapped.called
    /\ mapped' = [called |-> TRUE, in |-> data,
                  out |-> FromUpsRateResponse(data)]
    /\ UNCHANGED <<cFirst, cSecond, adapters, lookup, shop, clients>>
    /\ UNCHANGED tokenVars /\ UNCHANGED retryVars /\ UNCHANGED rateVars

\* ------------------------------------------- concurrent getRates() calls
\* Several callers share the service and its token cache; each runs the
\* pipeline of getRates() with a valid request.  attempt is the attempt of
\* withRetry, call the getToken() call of the attempt, token the token of
\* its POST; firstCall and firstToken are those of the first attempt.
NoClient ==
    [pc |-> "idle", attempt |-> 0, call |-> 0, token |-> NULL,
     firstCall |-> 0, firstToken |-> NULL, err |-> "none"]

\* what the rating endpoint answers to the callers
ClientReplies ==
    {RateSuccess(RateShopFixture),
     RateFailure(AxiosError(TRUE, 401, "ERR_BAD_REQUEST",
                            CarrierErrorBody("10001"))),
     RateFailure(AxiosError(TRUE, 503, "ERR_BAD_RESPONSE", NoData))}

\* an attempt of executeRateRequest() ends in its catch block with error:
\* the cache is invalidated for a 401 (lines 200-202), the error is mapped,
\* and withRetry sleeps or throws (lines 110-125)
ClientCatch(c, error) ==
    /\ IF IsAuthError(error)
       THEN InvalidateCache /\ justInvalidated' = TRUE
       ELSE /\ UNCHANGED <<cachedToken, expiresAt, cachedFrom, invalidated>>
            /\ justInvalidated' = FALSE
    /\ LET mapped_ == MapAxiosError(error, "ups")
           opts == MergeOptions(RatesRetryOptions)
       IN  clients' = [clients EXCEPT ![c] =
              IF ~IsRetryable(opts, mapped_)
                 \/ clients[c].attempt = opts.maxRetries
              THEN [@ EXCEPT !.pc = "rejected", !.err = mapped_.class]
              ELSE [@ EXCEPT !.pc = "sleep"]]

\* getRates(request) of caller c up to its first await: lines 119-156;
\* the callers are numbered in the order in which they call
ClientGetRates(c) ==
    /\ clients[c].pc = "idle"
    /\ \A d \in 1..(c - 1) : clients[d].pc # "idle"
    /\ GetTokenCall
    /\ clients' = [clients EXCEPT ![c] =
          [@ EXCEPT !.pc = "awaitToken", !.call = Len(calls) + 1,
                    !.firstCall = Len(calls) + 1]]
    /\ UNCHANGED <<cFirst, cSecond, adapters, lookup, shop, mapped>>
    /\ UNCHANGED retryVars /\ UNCHANGED rateVars

\* caller c resumes from its await of getToken(): lines 156-182
ClientTokenArrives(c) ==
    /\ clients[c].pc = "awaitToken"
    /\ calls[clients[c].call].pc = "done"
    /\ IF calls[clients[c].call].outcome = "fulfilled"
       THEN /\ clients' = [clients EXCEPT ![c] =
                  [@ EXCEPT !.pc = "awaitPost",
                            !.token = calls[clients[c].call].value,
                            !.firstToken =
                               IF clients[c].attempt = 0
                               THEN calls[clients[c].call].value ELSE @]]
            /\ justInvalidated' = FALSE
            /\ UNCHANGED <<cachedToken, expiresAt, cachedFrom, invalidated>>
       ELSE ClientCatch(c, calls[clients[c].call].err)
    /\ UNCHANGED <<mockMode, refreshPromise, exch, calls, now>>
    /\ UNCHANGED <<cFirst, cSecond, adapters, lookup, shop, mapped>>
    /\ UNCHANGED retryVars /\ UNCHANGED rateVars

\* the POST of caller c is answered: lines 184-206
ClientPostAnswered(c, reply) ==
    /\ clients[c].pc = "awaitPost"
    /\ IF ~reply.thrown /\ UpsRateResponseSchemaOk(reply.data)
       THEN /\ clients' = [clients EXCEPT ![c] = [@ EXCEPT !.pc = "resolved"]]
            /\ justInvalidated' = FALSE
            /\ UNCHANGED <<cachedToken, expiresAt, cachedFrom, invalidated>>
       ELSE ClientCatch(c,
               IF reply.thrown THEN reply.error
               ELSE CarrierError("CarrierResponseParseError", "ups",
                                 "PARSE_ERROR", reply.status))
    /\ UNCHANGED <<mockMode, refreshPromise, exch, calls, now>>
    /\ UNCHANGED <<cFirst, cSecond, adapters, lookup, shop, mapped>>
    /\ UNCHANGED retryVars /\ UNCHANGED rateVars

\* the retry delay of caller c is over: the next attempt calls getToken()
ClientSleepEnds(c) ==
    /\ clients[c].pc = "sleep"
    /\ GetTokenCall
    /\ clients' = [clients EXCEPT ![c] =
          [@ EXCEPT !.pc = "awaitToken", !.attempt = @ + 1,
                    !.call = Len(calls) + 1]]
    /\ UNCHANGED <<cFirst, cSecond, adapters, lookup, shop, mapped>>
    /\ UNCHANGED retryVars /\ UNCHANGED rateVars

OtherIdle ==
    /\ cFirst = NoClassification
    /\ cSecond = NoClassification
    /\ adapters = <<>>
    /\ lookup = NoLookup
    /\ shop = NoShop
    /\ mapped = NoMapped
    /\ clients = [c \in 1..MaxClients |-> NoClient]

vars == <<mockMode, cachedToken, expiresAt, refreshPromise, exch, calls, now,
          cachedFrom, invalidated, justInvalidated,
          rOptions, rPc, rAttempt, rLastError, rOutcome, rInvocations,
          rDelays,
          gPc, gRequest, gResult, xPc, xCall, xResult, posts,
          gInvalidations,
          cFirst, cSecond, adapters, lookup, shop, mapped, clients>>

RetryIdle ==
    /\ rOptions = NoOptions
    /\ rPc = "idle"
    /\ rAttempt = 0
    /\ rLastError = NoError
    /\ rOutcome = [kind |-> "none", value |-> 0, err |-> NoError]
    /\ rInvocations = <<>>
    /\ rDelays = <<>>

\* the service after construction (lines 113-115), at some start time
TokenInit ==
    /\ mockMode \in BOOLEAN
    /\ cachedToken = NULL
    /\ expiresAt = Num(0)
    /\ refreshPromise = 0
    /\ exch = <<>>
    /\ calls = <<>>
    /\ now = 0
    /\ cachedFrom = 0
    /\ invalidated = {}
    /\ justInvalidated = FALSE

Init == TokenInit /\ RetryIdle /\ RatesIdle /\ OtherIdle

Next ==
    \/ GetTokenMock
    \/ GetTokenCached
    \/ GetTokenJoin
    \/ GetTokenStart
    \/ Invalidate
    \/ ExchangeCompletes
    \/ RefresherResumes
    \/ JoinerSettles
    \/ Tick

Spec == Init /\ [][Next]_vars

RetryInit ==
    TokenInit /\ ~mockMode /\ RetryIdle /\ RatesIdle /\ OtherIdle

RetryNext ==
    \/ RetryStarts
    \/ FnResolves
    \/ FnFails
    \/ SleepEnds

SpecRetry == RetryInit /\ [][RetryNext]_vars

\* withRetry when every invocation of fn settles and every timer fires;
\* Math.random() at the two ends of its range
RetryLiveNext ==
    \/ RetryStarts
    \/ FnResolves
    \/ \E error \in FnErrors : \E rnd \in {0, RandDen - 1} :
          FnRejects(error, rnd) /\ UNCHANGED rateVars /\ UNCHANGED otherVars
    \/ SleepEnds

SpecRetryLive == RetryInit /\ [][RetryLiveNext]_vars /\ WF_vars(RetryLiveNext)

\* one client calling getRates() once on the new service
RatesInit == TokenInit /\ RetryIdle /\ RatesIdle /\ OtherIdle

RatesNext ==
    \/ GetRatesCalled
    \/ ExecuteTokenArrives
    \/ PostAnswered
    \/ WithRetryResumes
    \/ RatesSleepEnds
    \/ ExchangeCompletes
    \/ RefresherResumes
    \/ Tick

SpecRates == RatesInit /\ [][RatesNext]_vars

\* the error mapper called twice while the token cache and the retry engine
\* run
ClassifyInit ==
    TokenInit /\ ~mockMode /\ RetryIdle /\ RatesIdle /\ OtherIdle

ClassifyNext ==
    \/ \E error \in RawFailures : \E carrierCode \in CarrierCodes :
          Classify(error, carrierCode)
    \/ ClassifyAgain
    \/ FirstGetToken
    \/ ExchangeCompletes
    \/ RefresherResumes
    \/ RatesRetryStarts
    \/ ServiceFails
    \/ SleepEnds
    \/ Tick

SpecClassify == ClassifyInit /\ [][ClassifyNext]_vars

\* the registry and the rating service on top of it
RatingInit == TokenInit /\ ~mockMode /\ RetryIdle /\ RatesIdle /\ OtherIdle

RatingNext ==
    \/ \E adapter \in Adapters : Register(adapter)
    \/ \E carrierCode \in LookupCodes : Resolve(carrierCode)
    \/ \E carrierCode \in LookupCodes : Has(carrierCode)
    \/ ShopAllCarriers
    \/ \E i \in DOMAIN shop.list : AdapterResolves(i)
    \/ \E i \in DOMAIN shop.list : AdapterRejects(i)
    \/ ShopReturns

SpecRating == RatingInit /\ [][RatingNext]_vars

\* the mapper applied to responses
MapperInit == TokenInit /\ RetryIdle /\ RatesIdle /\ OtherIdle

MapperNext == \E data \in RateResponses : MapResponse(data)

SpecMapper == MapperInit /\ [][MapperNext]_vars

\* concurrent callers of getRates() on one service.  The calls overlap
\* within one reading of the clock; a credential that is no longer valid at
\* the next getToken() is the one that arrives inside the refresh buffer
\* (expires_in 60) or the one a 401 has invalidated.
ClientsInit == TokenInit /\ ~mockMode /\ RetryIdle /\ RatesIdle /\ OtherIdle

ClientsNext ==
    \/ \E c \in 1..MaxClients : ClientGetRates(c)
    \/ \E c \in 1..MaxClients : ClientTokenArrives(c)
    \/ \E c \in 1..MaxClients : \E reply \in ClientReplies :
          ClientPostAnswered(c, reply)
    \/ \E c \in 1..MaxClients : ClientSleepEnds(c)
    \/ ExchangeCompletes
    \/ RefresherResumes
    \/ JoinerSettles

SpecClients == ClientsInit /\ [][ClientsNext]_vars

\* ------------------------------------------------------------------ claims
Done(i) == calls[i].pc = "done"
Fulfilled(i) == Done(i) /\ calls[i].outcome = "fulfilled"
Rejected(i) == Done(i) /\ calls[i].outcome = "rejected"
\* a step that is one new getToken() call
NewCallStep == Len(calls') = Len(calls) + 1
TheNewCall == calls'[Len(calls')]

\* C1: the getToken() calls issued before any refresh completes cause
\* exactly one exchange, are all served by it, and those that resolve
\* resolve to the same credential value.
C1_SingleFlight ==
    ~mockMode =>
        LET early == {i \in DOMAIN calls : calls[i].early}
        IN  /\ \A i \in early : calls[i].p = 1
            /\ early # {} =>
                  Cardinality({i \in early : calls[i].how = "start"}) = 1
            /\ (early = DOMAIN calls /\ calls # <<>>) => Len(exch) = 1
            /\ \A i, j \in early :
                  Fulfilled(i) /\ Fulfilled(j) =>
                      calls[i].value = calls[j].value

C1_Witness ==
    /\ ~mockMode
    /\ Len(calls) = 3
    /\ \A i \in DOMAIN calls : calls[i].early /\ Fulfilled(i)
    /\ Len(exch) = 1

\* C2: at most one credential exchange is in flight, whatever the
\* interleaving of getToken(), invalidate() and exchange completions.
C2_AtMostOneInFlight == Cardinality(InFlight) <= 1

C2_Witness ==
    /\ Len(exch) = 2
    /\ InFlight = {2}
    /\ invalidated # {}
    /\ \E i \in DOMAIN calls : calls[i].pc = "joined" /\ calls[i].p = 2

\* C3 as claimed: every credential getToken() returns is more than the
\* buffer window away from its expiry when it is returned.
C3_Original ==
    \A i \in DOMAIN calls :
        (Fulfilled(i) /\ calls[i].how # "mock") => calls[i].unexpired

\* C3 amended: a credential served from the cache is more than the buffer
\* window away from its expiry; a call that finds the cached credential
\* inside the window (or none) awaits an exchange instead, and the credential
\* of that exchange is returned whatever its expiry.
C3_CachedUnexpired ==
    \A i \in DOMAIN calls :
        /\ calls[i].how = "cached" => Fulfilled(i) /\ calls[i].unexpired
        /\ calls[i].how \in {"start", "join"} =>
              /\ calls[i].p \in DOMAIN exch
              /\ Fulfilled(i) =>
                    /\ calls[i].src = calls[i].p
                    /\ calls[i].value = exch[calls[i].p].token

C3_Witness ==
    /\ \E i \in DOMAIN calls : calls[i].how = "cached" /\ calls[i].unexpired
    /\ \E i \in DOMAIN calls :
          calls[i].how = "start" /\ Fulfilled(i) /\ ~calls[i].unexpired
    /\ Len(exch) = 2

\* C4: with a credential cached and now < expiresAt - 60 s, getToken()
\* returns it and starts no exchange; with none cached or now >= expiresAt -
\* 60 s, and no refresh guard set, it starts exactly one exchange and returns
\* what that exchange produced; a successful exchange stores its token with
\* expiresAt = issuedAt + expiresInSeconds * 1000.
C4_Step ==
    /\ (NewCallStep /\ ~mockMode) =>
          LET hit == cachedToken \notin {NULL, ""}
                     /\ ~expiresAt.nan /\ now < expiresAt.v - 60000
          IN  /\ hit => /\ TheNewCall.pc = "done"
                        /\ TheNewCall.outcome = "fulfilled"
                        /\ TheNewCall.value = cachedToken
                        /\ exch' = exch
              /\ (~hit /\ refreshPromise = 0) =>
                        /\ Len(exch') = Len(exch) + 1
                        /\ TheNewCall.pc = "awaitRefresh"
                        /\ TheNewCall.p = Len(exch')
    /\ \A e \in DOMAIN exch :
          (exch[e].state = "pending" /\ exch'[e].state = "fulfilled") =>
              /\ cachedToken' = exch'[e].token
              /\ exch'[e].token = exch'[e].reply.access_token
              /\ exch'[e].reply.numeric =>
                    expiresAt' = Num(exch'[e].reply.issuedAtMs
                                     + exch'[e].reply.expiresInSec * 1000)

C4_Returned ==
    \A i \in DOMAIN calls :
        (calls[i].how = "start" /\ Done(i)) =>
            /\ calls[i].outcome = exch[calls[i].p].state
            /\ calls[i].value = exch[calls[i].p].token
            /\ calls[i].src = calls[i].p

C4_CacheOrExchange == [](C4_Returned) /\ [][C4_Step]_vars

C4_Witness ==
    /\ \E i \in DOMAIN calls : calls[i].how = "cached" /\ calls[i].src = 1
    /\ \E i \in DOMAIN calls :
          calls[i].how = "start" /\ calls[i].p = 2 /\ Fulfilled(i)
    /\ expiresAt = Num(30000 + 90 * 1000)

\* C5 as claimed: invalidate() immediately followed by getToken() starts a
\* new exchange, in every reachable state.
C5_Original ==
    [][(justInvalidated /\ ~mockMode /\ NewCallStep) =>
          Len(exch') = Len(exch) + 1]_vars

\* C5 amended: invalidate() immediately followed by getToken() never returns
\* a cached credential; the call starts a new exchange of its own when no
\* refresh guard is set, and awaits the guard's promise, starting no
\* exchange, when one is set.
C5_AfterInvalidate ==
    [][(justInvalidated /\ ~mockMode /\ NewCallStep) =>
          /\ TheNewCall.how # "cached"
          /\ TheNewCall.pc # "done"
          /\ refreshPromise = 0 =>
                /\ Len(exch') = Len(exch) + 1
                /\ TheNewCall.p = Len(exch')
          /\ refreshPromise # 0 =>
                /\ exch' = exch
                /\ TheNewCall.p = refreshPromise]_vars

\* a call made right after an invalidate() that removed a credential which
\* was still valid, with no guard set
C5_Witness ==
    /\ ~mockMode
    /\ Len(exch) = 2
    /\ exch[1].state = "fulfilled" /\ exch[1].token = "tokA"
    /\ exch[1].exp = Num(90000)
    /\ now = 0
    /\ 1 \in invalidated
    /\ \E i \in DOMAIN calls : calls[i].how = "start" /\ calls[i].p = 2
    /\ \A i \in DOMAIN calls : calls[i].how # "join"

\* C6: a getToken() call that starts after an invalidate() has completed
\* never returns the credential that was cached when invalidate() ran.
C6_Original ==
    \A i \in DOMAIN calls :
        (Fulfilled(i) /\ calls[i].how # "mock") =>
            calls[i].src \notin calls[i].invAtStart

\* C7: the callers that call getToken() while a refresh is in flight start
\* no exchange and await that refresh; each of them ends as the refresh
\* ended, with its credential or with its error.
C7_Joined ==
    \A i \in DOMAIN calls :
        (calls[i].how = "join" /\ Done(i)) =>
            /\ exch[calls[i].p].state # "pending"
            /\ calls[i].outcome = exch[calls[i].p].state
            /\ calls[i].value = exch[calls[i].p].token
            /\ calls[i].err = exch[calls[i].p].err
            /\ calls[i].src = calls[i].p

C7_Step ==
    (NewCallStep /\ ~mockMode /\ InFlight # {}) =>
        /\ exch' = exch
        /\ TheNewCall.how = "join"
        /\ TheNewCall.p \in InFlight

C7_SharedOutcome == [](C7_Joined) /\ [][C7_Step]_vars

C7_Witness ==
    /\ Len(calls) = 3
    /\ calls[2].how = "join" /\ calls[3].how = "join"
    /\ calls[2].early /\ calls[3].early
    /\ Rejected(2) /\ Rejected(3)
    /\ calls[2].err.class = "CarrierNetworkError"

\* C8: a failed exchange clears the cached credential and expiry in the
\* step that fails, and the next getToken() after the failure starts a fresh
\* exchange.
C8_Original ==
    [][/\ \A e \in DOMAIN exch :
             (exch[e].state = "pending" /\ exch'[e].state = "rejected") =>
                 cachedToken' = NULL /\ expiresAt' = Num(0)
       /\ (/\ ~mockMode
           /\ exch # <<>>
           /\ exch[Len(exch)].state = "rejected"
           /\ NewCallStep) => Len(exch') = Len(exch) + 1]_vars

\* C9: invalidate() clears credential and expiry in one step, no state
\* shows the credential cleared with the expiry left, and an invalidate()
\* right after another, or on an empty cache, changes nothing.
C9_Step ==
    justInvalidated' =>
        /\ cachedToken' = NULL
        /\ expiresAt' = Num(0)
        /\ refreshPromise' = refreshPromise
        /\ exch' = exch
        /\ (justInvalidated \/ (cachedToken = NULL /\ expiresAt = Num(0))) =>
              /\ cachedToken' = cachedToken
              /\ expiresAt' = expiresAt

C9_InvalidateIdempotent ==
    [](cachedToken = NULL => expiresAt = Num(0)) /\ [][C9_Step]_vars

C9_Witness ==
    /\ justInvalidated
    /\ 1 \in invalidated
    /\ exch[1].exp = Num(90000)
    /\ cachedToken = NULL

\* C10: withRetry invokes fn at most maxRetries + 1 times, exactly that
\* often when every attempt fails with an error the policy retries, and not
\* again after the first attempt that succeeds, whose result it returns.
C10_BoundedAttempts ==
    LET maxRetries == IF rOptions.maxRetries = -1 THEN 3
                      ELSE rOptions.maxRetries
        retried(error) ==
            \/ rOptions.isRetryable = "always"
            \/ /\ rOptions.isRetryable = "absent"
               /\ error.class \in CarrierErrorClasses
               /\ error.isRetryable
        n == Len(rInvocations)
    IN  rPc # "idle" =>
        /\ n <= maxRetries + 1
        /\ \A k \in 1..(n - 1) : rInvocations[k].outcome = "err"
        /\ (rPc = "thrown"
            /\ \A k \in 1..n : retried(rInvocations[k].err)) =>
                n = maxRetries + 1
        /\ rPc = "returned" =>
              /\ rInvocations[n].outcome = "ok"
              /\ rOutcome.kind = "returned"
              /\ rOutcome.value = rInvocations[n].value
        /\ (n > 0 /\ rInvocations[n].outcome = "ok") => rPc = "returned"

C10_Witness ==
    /\ rOptions.maxRetries = 2
    /\ rPc = "thrown"
    /\ Len(rInvocations) = 3
    /\ \A k \in 1..3 : rInvocations[k].err.class = "CarrierServiceError"
    /\ rOptions.isRetryable = "absent"

C10_WitnessReturned ==
    /\ rOptions.maxRetries = 2
    /\ rPc = "returned"
    /\ Len(rInvocations) = 2

\* C11: when an attempt fails with an error the policy does not retry, or
\* fails after maxRetries extra attempts, withRetry throws the error of that
\* last attempt, the same value, and fn is not invoked again.
C11_LastErrorUnmodified ==
    LET maxRetries == IF rOptions.maxRetries = -1 THEN 3
                      ELSE rOptions.maxRetries
        retried(error) ==
            \/ rOptions.isRetryable = "always"
            \/ /\ rOptions.isRetryable = "absent"
               /\ error.class \in CarrierErrorClasses
               /\ error.isRetryable
        n == Len(rInvocations)
    IN  /\ rPc = "thrown" =>
              /\ n >= 1
              /\ rInvocations[n].outcome = "err"
              /\ rOutcome.kind = "thrown"
              /\ rOutcome.err = rInvocations[n].err
              /\ ~retried(rInvocations[n].err) \/ n = maxRetries + 1
        /\ (n >= 1 /\ rInvocations[n].outcome = "err"
            /\ (~retried(rInvocations[n].err) \/ n = maxRetries + 1)) =>
              rPc = "thrown"

C11_Witness ==
    /\ rPc = "thrown"
    /\ Len(rInvocations) = 3
    /\ rInvocations[1].err.class = "CarrierServiceError"
    /\ rInvocations[2].err.class = "CarrierServiceError"
    /\ rInvocations[3].err.class = "CarrierAuthError"
    /\ rOptions.isRetryable = "absent"
    /\ rOutcome.err.class = "CarrierAuthError"

\* C12: with jitter disabled the delay before retry k (k = 0, 1, ...) is
\* min(initialDelayMs * backoffMultiplier^k, maxDelayMs); the policy
\* {initialDelayMs 1000, backoffMultiplier 2, maxDelayMs 5000, maxRetries 2}
\* whose attempts all fail retryably sleeps exactly 1000 and then 2000.
C12_BackoffDelays ==
    LET initialDelayMs == IF rOptions.initialDelayMs = -1 THEN 1000
                          ELSE rOptions.initialDelayMs
        maxDelayMs == IF rOptions.maxDelayMs = -1 THEN 10000
                      ELSE rOptions.maxDelayMs
        multiplier == IF rOptions.backoffMultiplier = -1 THEN 2
                      ELSE rOptions.backoffMultiplier
        expected(k) ==
            LET d == initialDelayMs * (multiplier ^ k)
            IN  IF d <= maxDelayMs THEN d ELSE maxDelayMs
    IN  rOptions.useJitter = "false" =>
        /\ \A k \in 0..(Len(rDelays) - 1) : rDelays[k + 1] = expected(k)
        /\ (/\ rPc = "thrown"
            /\ Len(rInvocations) = 3
            /\ rOptions.maxRetries = 2
            /\ initialDelayMs = 1000
            /\ multiplier = 2
            /\ maxDelayMs = 5000) => rDelays = <<1000, 2000>>

C12_Witness ==
    /\ rOptions.useJitter = "false"
    /\ rOptions.maxRetries = 2
    /\ rOptions.initialDelayMs = 1000
    /\ rOptions.backoffMultiplier = -1
    /\ rOptions.maxDelayMs = 5000
    /\ rPc = "thrown"
    /\ Len(rInvocations) = 3
    /\ rDelays = <<1000, 2000>>

\* one failed attempt that has retries left
C13_Step ==
    LET maxRetries == IF rOptions.maxRetries = -1 THEN 3
                      ELSE rOptions.maxRetries
        error == rLastError'
        classified == error.class \in CarrierErrorClasses
    IN  (rPc = "awaitFn" /\ rPc' \in {"sleep", "thrown"}
         /\ rAttempt < maxRetries) =>
            /\ rOptions.isRetryable = "always" => rPc' = "sleep"
            /\ rOptions.isRetryable = "never" => rPc' = "thrown"
            /\ (rOptions.isRetryable = "absent" /\ classified) =>
                  (rPc' = "sleep" <=> error.isRetryable)
            /\ (rOptions.isRetryable = "absent" /\ ~classified) =>
                  rPc' = "thrown"

\* C13: whether a failed attempt with attempts left is retried is decided
\* by the retryable flag of the classified error alone, unless an override
\* predicate is supplied, which then decides alone, in both directions; an
\* error that is not a classified error is not retried without a predicate.
C13_RetryDecision == [][C13_Step]_vars

C13_Witness ==
    /\ rOptions.isRetryable = "always"
    /\ Len(rInvocations) = 2
    /\ rInvocations[1].err.class = "CarrierAuthError"
    /\ rOptions.maxRetries = 1

\* ------------------------------------------------------- claims: getRates
\* the request fails RateRequestSchema
InvalidRequest(request) == ~request.addresses \/ request.packages < 1
\* transport call k was answered with an HTTP error of the given status
GotStatus(k, status) ==
    /\ posts[k].state = "done"
    /\ posts[k].reply.thrown
    /\ posts[k].reply.error.hasResponse
    /\ posts[k].reply.error.status = status
\* transport call k got no answer (timeout or connection failure)
GotNoResponse(k) ==
    /\ posts[k].state = "done"
    /\ posts[k].reply.thrown
    /\ ~posts[k].reply.error.hasResponse
\* transport call k was answered 2xx with a body of the wrong structure
GotBadStructure(k) ==
    /\ posts[k].state = "done"
    /\ ~posts[k].reply.thrown
    /\ ~posts[k].reply.data.hasRateResponse
GetRatesDone == gPc \in {"resolved", "rejected"}

\* C14: a request that fails the domain schema makes getRates fail with a
\* Validation error, and no getToken() call, no credential exchange and no
\* transport call is ever issued for it.
C14_ValidateFirst ==
    (gPc # "idle" /\ InvalidRequest(gRequest)) =>
        /\ gPc = "rejected"
        /\ gResult.kind = "thrown"
        /\ gResult.err.class = "CarrierValidationError"
        /\ calls = <<>>
        /\ exch = <<>>
        /\ posts = <<>>
        /\ rInvocations = <<>>

C14_Witness ==
    /\ ~mockMode
    /\ gPc = "rejected"
    /\ gRequest.packages = 0
    /\ gResult.err.class = "CarrierValidationError"

\* C15: in mock mode getRates rejects an invalid request with a Validation
\* error and resolves a valid one with the mapping of the fixture (three
\* quotes), with no transport call, no credential exchange and no retry.
C15_MockMode ==
    (mockMode /\ gPc # "idle") =>
        /\ IF InvalidRequest(gRequest)
           THEN /\ gPc = "rejected"
                /\ gResult.err.class = "CarrierValidationError"
           ELSE /\ gPc = "resolved"
                /\ gResult.kind = "returned"
                /\ Len(gResult.value.quotes) = 3
                /\ gResult.value.quotes[1].serviceCode = "03"
                /\ gResult.value.quotes[2].serviceCode = "02"
                /\ gResult.value.quotes[3].serviceCode = "01"
                /\ \A k \in 1..3 : gResult.value.quotes[k].carrier = "ups"
        /\ posts = <<>>
        /\ exch = <<>>
        /\ rPc = "idle"
        /\ rInvocations = <<>>
        /\ rDelays = <<>>

C15_Witness ==
    /\ mockMode
    /\ gPc = "resolved"
    /\ Len(gResult.value.quotes) = 3
    /\ posts = <<>>

\* the invalidations counted, and the step that answers 401
C16_Inv ==
    \A k \in DOMAIN posts :
        GotStatus(k, 401) =>
            /\ gInvalidations = 1
            /\ \A e \in DOMAIN exch : exch[e].state # "rejected"

C16_Step ==
    (xPc = "awaitPost" /\ xPc' = "settled"
     /\ GotStatus(Len(posts), 401)') =>
        /\ gInvalidations = 0
        /\ gInvalidations' = 1
        /\ cachedToken' = NULL
        /\ expiresAt' = Num(0)
        /\ gPc' = "retrying"
        /\ xResult'.kind = "thrown"
        /\ xResult'.err.class = "CarrierAuthError"

\* C16: a transport call answered 401 makes the getRates call invalidate
\* the token cache exactly once, in whichever attempt it happens, and the
\* cache is cleared in the step that classifies the error, before getRates
\* rejects.
C16_InvalidatedOnce == []C16_Inv /\ [][C16_Step]_vars

C16_Witness ==
    /\ gPc = "rejected"
    /\ Len(posts) = 3
    /\ GotStatus(3, 401)
    /\ gInvalidations = 1
    /\ cachedToken = NULL

C18_Original ==
    (GetRatesDone /\ posts # <<>> /\ GotStatus(1, 401)) =>
        /\ gInvalidations >= 1
        /\ Len(posts) = 2
        /\ (~posts[2].reply.thrown /\ posts[2].reply.data.hasRateResponse)
              => gPc = "resolved"

\* the answers the policy retries, and those it does not
C19_Retryable(k) ==
    GotStatus(k, 429) \/ GotStatus(k, 503) \/ GotNoResponse(k)

C19_Terminal(k) ==
    \/ GotStatus(k, 400)
    \/ GotStatus(k, 401)
    \/ GotStatus(k, 403)
    \/ GotBadStructure(k)

C20_Original ==
    (xPc = "settled" /\ calls[xCall].outcome = "rejected") =>
        /\ xResult.err.class = calls[xCall].err.class
        /\ xResult.err.isRetryable = calls[xCall].err.isRetryable

\* C21 (as stated): when the transport call is answered 2xx with a body of
\* the wrong structure, getRates rejects with a CarrierResponseParseError,
\* without mapping and without a further attempt.
C21_Original ==
    \A k \in DOMAIN posts :
        GotBadStructure(k) =>
            /\ k = Len(posts)
            /\ xPc # "awaitPost" => xResult.kind = "thrown"
            /\ xPc = "settled" =>
                  xResult.err.class = "CarrierResponseParseError"
            /\ GetRatesDone =>
                  /\ gPc = "rejected"
                  /\ gResult.err.class = "CarrierResponseParseError"

\* C24: a finished getRates call has either resolved with a mapped
\* response or rejected with one classified error, never a raw transport
\* error; the error is the one the last attempt was classified as, and for
\* an HTTP or network failure of the last transport call it has the kind of
\* that failure, whatever the earlier, retried attempts failed with.
C24_OneOutcome ==
    GetRatesDone =>
        /\ gPc = "resolved" =>
              /\ gResult.kind = "returned"
              /\ gResult.err = NoError
              /\ IF UseMock THEN posts = <<>>
                 ELSE /\ posts # <<>>
                      /\ ~posts[Len(posts)].reply.thrown
                      /\ Len(gResult.value.quotes) =
                            Len(posts[Len(posts)].reply.data.RatedShipment)
        /\ gPc = "rejected" =>
              /\ gResult.kind = "thrown"
              /\ gResult.err.class \in CarrierErrorClasses
              /\ ~gResult.err.isAxiosError
              /\ rInvocations # <<>> =>
                    gResult.err = rInvocations[Len(rInvocations)].err
              /\ (posts # <<>> /\ Len(posts) = Len(rInvocations)
                  /\ posts[Len(posts)].reply.thrown) =>
                    LET error == posts[Len(posts)].reply.error
                    IN  gResult.err.class =
                           IF ~error.hasResponse THEN "CarrierNetworkError"
                           ELSE IF error.status \in {401, 403}
                           THEN "CarrierAuthError"
                           ELSE IF error.status = 429
                           THEN "CarrierRateLimitError"
                           ELSE IF error.status >= 500
                           THEN "CarrierServiceError"
                           ELSE "CarrierValidationError"

C24_Witness ==
    /\ gPc = "rejected"
    /\ Len(posts) = 3
    /\ GotStatus(1, 429)
    /\ GotStatus(2, 503)
    /\ GotStatus(3, 400)
    /\ gResult.err.class = "CarrierValidationError"

\* C25 (as stated): a transport call answered 401 or 403, which the
\* classifier maps to Auth, has invalidated the token cache by the time its
\* classified error is thrown.
C25_Original ==
    \A k \in DOMAIN posts :
        (GotStatus(k, 401) \/ GotStatus(k, 403)) =>
            /\ gInvalidations = 1
            /\ cachedToken = NULL

\* ---------------------------------------------------- mapAxiosError claims
Retryable3 ==
    {"CarrierRateLimitError", "CarrierNetworkError", "CarrierServiceError"}

\* the row of the classification table an input falls in
C22_Row(in) ==
    IF in.isAxiosError /\ ~in.hasResponse THEN "CarrierNetworkError"
    ELSE IF in.isAxiosError /\ in.status \in {401, 403}
    THEN "CarrierAuthError"
    ELSE IF in.isAxiosError /\ in.status = 429 THEN "CarrierRateLimitError"
    ELSE IF in.isAxiosError /\ in.status \in 400..499
    THEN "CarrierValidationError"
    ELSE IF in.isAxiosError /\ in.status \in 500..599
    THEN "CarrierServiceError"
    ELSE IF in.class = "SyntaxError" THEN "CarrierResponseParseError"
    ELSE "CarrierUnknownError"

\* C22: mapAxiosError classifies by the table: no response gives Network
\* (retryable); 401 and 403 Auth; 400, 422 and every other 4xx Validation;
\* 429 RateLimit (retryable) with retryAfterSeconds from the retry-after
\* header, 60 for "60"; every 5xx Service (retryable); a parse failure
\* ResponseParse; anything else Unknown.  Only RateLimit, Network and
\* Service are retryable.
C22_Table ==
    cFirst.called =>
        /\ cFirst.out.class = C22_Row(cFirst.in)
        /\ cFirst.out.carrierCode = cFirst.carrierCode
        /\ cFirst.out.isRetryable <=> cFirst.out.class \in Retryable3
        /\ cFirst.out.retryAfterSeconds.defined =>
               /\ cFirst.out.class = "CarrierRateLimitError"
               /\ cFirst.in.headers # NoHeaders
        /\ (/\ cFirst.out.class = "CarrierRateLimitError"
            /\ cFirst.in.headers.lower = <<"6", "0">>) =>
               cFirst.out.retryAfterSeconds = Defined(60)
        /\ (/\ cFirst.out.class = "CarrierRateLimitError"
            /\ cFirst.in.headers.upper = <<"1", "2", "0">>) =>
               cFirst.out.retryAfterSeconds = Defined(120)

C22_Witness ==
    /\ cFirst.called
    /\ cFirst.in.status = 429
    /\ cFirst.in.headers.lower = <<"6", "0">>
    /\ cFirst.out.class = "CarrierRateLimitError"
    /\ cFirst.out.isRetryable
    /\ cFirst.out.retryAfterSeconds = Defined(60)

SameLetters(code, carrierCode) ==
    ToLowerCase(code) = ToLowerCase(carrierCode)

\* C26 (as stated): for every registered adapter, resolve(code) returns it
\* and has(code) is true for its carrier code written in any letter case;
\* resolve of a code that is not registered throws an error naming the code
\* and listing the available carriers.
C26_Original ==
    /\ \A i \in DOMAIN adapters :
          SameLetters(lookup.code, adapters[i].value.carrierCode) =>
              /\ lookup.op = "resolve" =>
                    lookup.found /\ lookup.adapter = adapters[i].value
              /\ lookup.op = "has" => lookup.found
    /\ (/\ lookup.op = "resolve"
        /\ \A i \in DOMAIN adapters :
              ~SameLetters(lookup.code, adapters[i].value.carrierCode)) =>
          /\ ~lookup.found
          /\ lookup.named = lookup.code
          /\ lookup.available = ListCarriers

\* C27: shopAllCarriers returns, whichever adapters fail and in whatever
\* order they complete, a record with an entry for exactly the adapters
\* whose getRates succeeded, each holding that adapter's own response.
C27_ShopAll ==
    /\ shop.pc \in {"idle", "awaiting", "returned"}
    /\ shop.pc = "returned" =>
          /\ \A i \in DOMAIN shop.list :
                shop.settled[i] = "fulfilled" <=>
                    /\ MapHas(shop.results, shop.list[i].carrierCode)
                    /\ MapGet(shop.results, shop.list[i].carrierCode) =
                          ResponseOf(shop.list[i])
          /\ \A j \in DOMAIN shop.results :
                \E i \in DOMAIN shop.list :
                    /\ shop.settled[i] = "fulfilled"
                    /\ shop.results[j].key = shop.list[i].carrierCode

C27_Witness ==
    /\ shop.pc = "returned"
    /\ Len(shop.list) = 2
    /\ shop.settled[1] = "rejected"
    /\ shop.settled[2] = "fulfilled"
    /\ Len(shop.results) = 1
    /\ shop.results[1].value = ResponseOf(shop.list[2])

\* -------------------------------------------------------- mapper claims
\* C28: a response with n rated shipments is mapped to exactly n quotes in
\* the same order, each with its shipment's service code and total charges;
\* the stub with services 03, 02, 01 and charges 12.35, 19.45, 28.10 gives
\* three quotes with those pairs.
C28_Quotes ==
    mapped.called =>
        /\ Len(mapped.out.quotes) = Len(mapped.in.RatedShipment)
        /\ \A i \in DOMAIN mapped.in.RatedShipment :
              /\ mapped.out.quotes[i].serviceCode =
                    mapped.in.RatedShipment[i].Code
              /\ mapped.out.quotes[i].totalCharges =
                    ParseFloat(mapped.in.RatedShipment[i].MonetaryValue)
              /\ ~mapped.out.quotes[i].totalCharges.nan
        /\ mapped.in = RateShopFixture =>
              /\ [i \in 1..3 |-> mapped.out.quotes[i].serviceCode] =
                    <<"03", "02", "01">>
              /\ [i \in 1..3 |-> mapped.out.quotes[i].totalCharges] =
                    <<Num(1235), Num(1945), Num(2810)>>

C28_Witness ==
    /\ mapped.called
    /\ mapped.in = RateShopFixture
    /\ Len(mapped.out.quotes) = 3
    /\ mapped.out.quotes[3].serviceCode = "01"
    /\ mapped.out.quotes[3].totalCharges = Num(2810)

\* ------------------------------------------------- refresh guard, delays
\* C29 (as stated): the refresh guard is cleared once an exchange has
\* completed: a getToken() call that finds no valid credential after the
\* exchange completed starts an exchange of its own; it neither waits on the
\* completed exchange nor receives its outcome.
C29_Original ==
    [][(NewCallStep /\ TheNewCall.how = "join") =>
          exch[TheNewCall.p].state = "pending"]_vars

\* the policy in force: the options passed, the defaults for those left out
C30_Policy == MergeOptions(rOptions)

\* d = min(initialDelayMs * backoffMultiplier^k, maxDelayMs)
C30_Base(k) ==
    LET d == C30_Policy.initialDelayMs * (C30_Policy.backoffMultiplier ^ k)
    IN  IF d <= C30_Policy.maxDelayMs THEN d ELSE C30_Policy.maxDelayMs

\* C30 (as stated): the delay withRetry waits is capped at maxDelayMs; with
\* jitter disabled it equals d, with jitter enabled it lies between 0.75*d
\* and 1.25*d, rounded down.
C30_Original ==
    rPc # "idle" =>
        \A k \in 0..(Len(rDelays) - 1) :
            /\ rDelays[k + 1] <= C30_Policy.maxDelayMs
            /\ C30_Policy.useJitter = "false" => rDelays[k + 1] = C30_Base(k)
            /\ C30_Policy.useJitter = "true" =>
                  /\ rDelays[k + 1] >= (3 * C30_Base(k)) \div 4
                  /\ rDelays[k + 1] <= (5 * C30_Base(k)) \div 4

\* C30 amended: d = min(initialDelayMs * backoffMultiplier^k, maxDelayMs) is
\* capped at maxDelayMs; the delay waited equals d with jitter disabled, and
\* with jitter enabled lies between 0.75*d and 1.25*d, rounded down, so that
\* it can exceed maxDelayMs by up to a quarter.
C30_Delays ==
    rPc # "idle" =>
        \A k \in 0..(Len(rDelays) - 1) :
            /\ C30_Base(k) <= C30_Policy.maxDelayMs
            /\ C30_Policy.useJitter = "false" => rDelays[k + 1] = C30_Base(k)
            /\ C30_Policy.useJitter = "true" =>
                  /\ rDelays[k + 1] >= (3 * C30_Base(k)) \div 4
                  /\ rDelays[k + 1] <= (5 * C30_Base(k)) \div 4
                  /\ rDelays[k + 1] <= (5 * C30_Policy.maxDelayMs) \div 4

\* a jittered third delay above maxDelayMs
C30_Witness ==
    /\ rOptions.useJitter = "absent"
    /\ rOptions.maxDelayMs = 5000
    /\ rOptions.backoffMultiplier = 3
    /\ Len(rDelays) = 3
    /\ rDelays[3] = 5625

\* ------------------------------------------------ stages of an attempt
\* C31: in a non-mock getRates() the request is validated first; in every
\* attempt the POST is issued only after that attempt's getToken() returned
\* a token, and carries it; the response is mapped only after it passed the
\* structure check; an attempt that fails at a stage runs no later stage.
C31_StageOrder ==
    /\ posts # <<>> => RateRequestSchemaOk(gRequest) /\ ~mockMode
    /\ \A k \in DOMAIN posts :
          /\ posts[k].call \in DOMAIN calls
          /\ calls[posts[k].call].pc = "done"
          /\ calls[posts[k].call].outcome = "fulfilled"
          /\ posts[k].token = calls[posts[k].call].value
          /\ k > 1 => posts[k].call > posts[k - 1].call
          /\ posts[k].state = "pending" => k = Len(posts) /\ xPc = "awaitPost"
    /\ xPc = "awaitToken" =>
          \A k \in DOMAIN posts : posts[k].call < xCall
    /\ xPc = "awaitPost" =>
          posts # <<>> /\ posts[Len(posts)].call = xCall
    /\ (xPc = "settled" /\ xResult.kind = "returned") =>
          /\ posts # <<>>
          /\ posts[Len(posts)].call = xCall
          /\ posts[Len(posts)].state = "done"
          /\ ~posts[Len(posts)].reply.thrown
          /\ posts[Len(posts)].reply.data.hasRateResponse
          /\ xResult.value.quotes =
                FromUpsRateResponse(posts[Len(posts)].reply.data).quotes
    /\ (xPc = "settled" /\ xResult.kind = "thrown") =>
          /\ xResult.value = NoResponse
          /\ calls[xCall].outcome = "rejected" =>
                \A k \in DOMAIN posts : posts[k].call # xCall

\* a second attempt that went through every stage after a first that
\* failed at the transport
C31_Witness ==
    /\ xPc = "settled"
    /\ xResult.kind = "returned"
    /\ Len(posts) = 2
    /\ GotStatus(1, 503)
    /\ posts[2].call = 2
    /\ Len(xResult.value.quotes) = 3

\* ------------------------------------------------- cache consistency
\* C32: at every point where another caller can run, the cached token and
\* the expiry are either both cleared (no token, expiry 0) or both those of
\* one successful exchange; a token is never paired with the expiry of
\* another exchange or with expiry 0.
C32_Consistent ==
    \/ /\ cachedToken = NULL
       /\ expiresAt = Num(0)
    \/ /\ cachedToken # NULL
       /\ expiresAt # Num(0)
       /\ cachedFrom \in DOMAIN exch
       /\ exch[cachedFrom].state = "fulfilled"
       /\ cachedToken = exch[cachedFrom].reply.access_token
       /\ expiresAt = Num(exch[cachedFrom].reply.issuedAtMs
                          + 1000 * exch[cachedFrom].reply.expiresInSec)

\* the token of a second exchange, cached after the first was invalidated
C32_Witness ==
    /\ Len(exch) = 2
    /\ exch[1].state = "fulfilled" /\ exch[1].token = "tokA"
    /\ 1 \in invalidated
    /\ cachedFrom = 2
    /\ cachedToken = "tokB"
    /\ expiresAt = Num(TickMs + 60000)

\* ------------------------------------------- invalidate during a refresh
\* an invalidate() while a refresh is in flight leaves the refresh alone; a
\* refresh that succeeds leaves its token and expiry in the cache; a call
\* made while a refresh is in flight starts no exchange
C33_Step ==
    /\ (justInvalidated' /\ InFlight # {}) =>
          /\ exch' = exch
          /\ refreshPromise' = refreshPromise
          /\ calls' = calls
    /\ \A e \in DOMAIN exch :
          (exch[e].state = "pending" /\ exch'[e].state = "fulfilled") =>
              /\ cachedToken' # NULL
              /\ cachedToken' = exch'[e].token
              /\ expiresAt' = exch'[e].exp
    /\ (NewCallStep /\ InFlight # {}) => exch' = exch

\* C33: invalidate() while a refresh is in flight neither cancels nor
\* restarts it: no second exchange is started, the callers awaiting the
\* refresh receive its outcome, and a refresh that succeeds leaves its token
\* and expiry in the cache.
C33_InvalidateInFlight ==
    /\ [](/\ Cardinality(InFlight) <= 1
          /\ \A i \in DOMAIN calls :
                (Done(i) /\ calls[i].how \in {"start", "join"}) =>
                    /\ calls[i].outcome = exch[calls[i].p].state
                    /\ calls[i].value = exch[calls[i].p].token)
    /\ [][C33_Step]_vars

\* the second exchange was in flight when invalidate() removed the token
\* of the first; it succeeded, its starter got its token, the cache holds it
C33_Witness ==
    /\ Len(exch) = 2
    /\ exch[2].state = "fulfilled"
    /\ 1 \in invalidated
    /\ cachedFrom = 2
    /\ cachedToken = exch[2].token
    /\ \E i \in DOMAIN calls :
          /\ calls[i].how = "start" /\ calls[i].p = 2
          /\ calls[i].invAtStart = {}
          /\ Fulfilled(i) /\ calls[i].value = exch[2].token

\* ------------------------------------------- frame of a failed attempt
\* the step that ends an attempt whose POST was not answered 401
C35_Step ==
    (xPc = "awaitPost" /\ xPc' = "settled"
     /\ ~GotStatus(Len(posts), 401)') =>
        /\ cachedToken' = cachedToken
        /\ expiresAt' = expiresAt
        /\ gInvalidations' = gInvalidations

C36_AcquirePerAttempt ==
    /\ Len(calls) = Len(rInvocations)
    /\ Len(calls) <= 3
    /\ gPc \in {"retrying", "resolved", "rejected"} =>
          \/ Len(calls) = rAttempt + 1
          \/ mockMode /\ calls = <<>>
          \/ InvalidRequest(gRequest) /\ calls = <<>>
    /\ xPc # "none" => xCall = Len(calls)
    /\ \A k \in DOMAIN posts :
          /\ posts[k].token = calls[posts[k].call].value
          /\ \A j \in DOMAIN posts : j # k => posts[j].call # posts[k].call

\* three attempts, three getToken() calls: one exchange, two from the cache
C36_Witness ==
    /\ gPc = "rejected"
    /\ Len(posts) = 3
    /\ Len(calls) = 3
    /\ calls[1].how = "start"
    /\ calls[2].how = "cached"
    /\ calls[3].how = "cached"
    /\ \A k \in 1..3 : posts[k].call = k

\* ---------------------------------------------- termination of withRetry
\* invocations and delays of a withRetry() call
C38_Bounds ==
    rPc # "idle" =>
        /\ Len(rInvocations) <= MergeOptions(rOptions).maxRetries + 1
        /\ Len(rDelays) <= MergeOptions(rOptions).maxRetries
        /\ rPc \in {"awaitFn", "returned", "thrown"} =>
              Len(rDelays) = Len(rInvocations) - 1
        /\ rPc = "sleep" => Len(rDelays) = Len(rInvocations)

\* C38: withRetry, for a policy with a finite maxRetries and an operation
\* whose invocations all settle, returns or throws after at most
\* maxRetries + 1 invocations and at most maxRetries delays, and waits no
\* delay after the attempt whose error it throws.
C38_Terminates ==
    /\ []C38_Bounds
    /\ (rPc # "idle") ~> (rPc \in {"returned", "thrown"})

\* thrown after maxRetries + 1 failed invocations and maxRetries delays
C38_Witness ==
    /\ rPc = "thrown"
    /\ rOptions.maxRetries = 2
    /\ Len(rInvocations) = 3
    /\ Len(rDelays) = 2
    /\ rInvocations[3].outcome = "err"
    /\ rOptions.isRetryable = "always"

\* ------------------------------------------------ one adapter per code
\* C39 (as stated): the registry holds one adapter per carrier code: a
\* second adapter registered under a code replaces the first and resolve of
\* that code then returns the second; listCarriers holds no code twice;
\* listCarriers and getAllAdapters have the same length, the number of
\* distinct codes registered.
C39_Original ==
    /\ \A i, j \in DOMAIN adapters :
          adapters[i].key = adapters[j].key => i = j
    /\ \A i \in DOMAIN adapters :
          adapters[i].key = adapters[i].value.carrierCode
    /\ Len(ListCarriers) = Len(GetAllAdapters)
    /\ Len(ListCarriers) =
          Cardinality({GetAllAdapters[i].carrierCode : i \in DOMAIN adapters})
    /\ \A i \in DOMAIN adapters :
          (/\ adapters[i].replaced
           /\ lookup.op = "resolve"
           /\ lookup.code = adapters[i].key) =>
              lookup.found /\ lookup.adapter = adapters[i].value

\* ------------------------------------------- concurrent getRates() calls
AllStarted == \A c \in 1..MaxClients : clients[c].pc # "idle"

\* every caller's first getToken() call came before the first exchange had
\* completed, so on the empty cache
AllConcurrent ==
    /\ AllStarted
    /\ \A c \in 1..MaxClients : calls[clients[c].firstCall].early

SameFirstCredential ==
    \A c \in 1..MaxClients :
       clients[c].firstToken # NULL =>
          /\ exch[1].state = "fulfilled"
          /\ clients[c].firstToken = exch[1].token

\* C34 (as stated): a 401 answer to a request that was sent with an older
\* credential leaves a newer credential, one of a later exchange, in the
\* cache.
C34_Original ==
    [][\A c \in 1..MaxClients :
          (/\ clients[c].pc = "awaitPost"
           /\ clients'[c].pc # "awaitPost"
           /\ cachedToken # NULL
           /\ cachedFrom # calls[clients[c].call].src) =>
             cachedToken' = cachedToken]_vars

\* C37 (as stated): concurrent getRates() calls started on an empty cache
\* cause exactly one credential exchange in total, and the POSTs of their
\* first attempts all carry the credential of that exchange.
C37_Original ==
    AllConcurrent => Len(exch) = 1 /\ SameFirstCredential

\* C37 (amended): concurrent getRates() calls started on an empty cache
\* cause exactly one credential exchange for their first attempts, started
\* by one of them and awaited by the others, and the POSTs of their first
\* attempts all carry the credential of that exchange; a further exchange
\* is started only by a later attempt of one of the calls.
C37_FirstAttempts ==
    AllConcurrent =>
       /\ Len(exch) >= 1
       /\ \A c \in 1..MaxClients : calls[clients[c].firstCall].p = 1
       /\ Cardinality({c \in 1..MaxClients :
                          calls[clients[c].firstCall].how = "start"}) = 1
       /\ SameFirstCredential
       /\ (\A c \in 1..MaxClients : clients[c].attempt = 0) => Len(exch) = 1
       /\ \A i \in DOMAIN calls :
             (calls[i].how = "start" /\ calls[i].p > 1) =>
                \E c \in 1..MaxClients :
                   clients[c].attempt > 0 /\ clients[c].firstCall < i

C37_Witness ==
    /\ AllConcurrent
    /\ \A c \in 1..MaxClients :
          clients[c].firstToken # NULL /\ clients[c].firstToken = exch[1].token
    /\ Len(exch) = 1
    /\ \A c \in 1..MaxClients : clients[c].pc = "resolved"

====
